---- MODULE Spec2Model ----
(***************************************************************************)
(* A model of the Imara triage core: the DecisionEngine entry points       *)
(* (triage/decision_engine.py), the reply parser of the ConversationEngine *)
(* (triage/conversation_engine.py) and the Telegram webhook handlers that  *)
(* run over a shared ChatSession row (intake/webhook_service.py,           *)
(* intake/views.py, triage/models.py).                                     *)
(*                                                                         *)
(* The specifications share the variables; the first three are:           *)
(*   SpecEngine  - one call of a DecisionEngine entry point per step       *)
(*   SpecParse   - one call of _parse_llm_response per step                *)
(*   Spec        - the webhook workers over one ChatSession                *)
(* The library specifications (SpecSafeWord, SpecLocation, SpecEvidence,   *)
(* SpecRetry, SpecNormalize, SpecAgents, SpecPipeline, SpecPartners,       *)
(* SpecAskLocation, SpecDispatchLog, SpecTurn, SpecUpdate, SpecRateLimit)  *)
(* each drive one more variable.                                           *)
(***************************************************************************)
EXTENDS Integers, Sequences, FiniteSets, TLC

VARIABLES
    de_call,      \* the DecisionEngine call last made: entry point and what its services did
    de_result,    \* the TriageResult it returned
    llm_reply,    \* the content last handed to _parse_llm_response
    parsed,       \* the ConversationResponse it returned
    db,           \* the ChatSession row of the chat, as stored
    now,          \* timezone.now(), in seconds
    updates,      \* the number of updates handed to the workers so far
    pc,           \* where each worker is in process_update
    msg,          \* the kind of update each worker is handling
    session,      \* each worker's in-memory ChatSession instance
    response,     \* each worker's ConversationResponse of the turn
    result,       \* each worker's report result (the dict of process_*_report)
    cases,        \* the IncidentReport rows created, in order
    dispatches,   \* the DispatchLog rows created
    midflight,    \* per worker: end of a cooldown set while its text turn was in flight
    last_safe_word, \* when a safe word was last handled
    loc,          \* the text last handed to normalize_location and what it returned
    ev,           \* the incident report under custody, with its evidence assets
    rq,           \* a call of an external service client in progress
    an,           \* a model reply being turned into an analysis by a client
    bundle,       \* the ContextBundle that travels between the agents
    pa,           \* the PartnerOrganization rows, the cache and the last lookup by location
    lr,           \* a chat session asked for a location, its cases and dispatches, on one platform
    dl,           \* the DispatchLog rows and the email tasks enqueued for them
    turn,         \* a chat session and the text turns handled on it, one after the other
    upd,          \* an inbound text message and what its handler did with it
    rl            \* the rate limiter's cache and the requests passing through the decorator

engineVars == <<de_call, de_result>>
parseVars == <<llm_reply, parsed>>
sessionVars ==
    <<db, now, updates, pc, msg, session, response, result, cases, dispatches,
      midflight, last_safe_word>>
libVars == <<loc, ev, rq, an, bundle, pa, lr, dl, turn, upd, rl>>

\* the variables of the library functions when none has been called
NoLoc == [text |-> "", country |-> "<unset>", again |-> "<unset>"]
NoRl == [status |-> "none"]
NoUpd == [status |-> "none"]
NoTurn == [status |-> "none"]
NoDl == [status |-> "none"]
NoLr == [status |-> "none"]
NoPa == [status |-> "none"]
NoBundle == [status |-> "none"]
NoAn == [status |-> "none"]
NoRq == [status |-> "none"]
NoEv == [created |-> FALSE]

LibIdle(except) ==
    /\ (except = "loc" \/ loc = NoLoc)
    /\ (except = "ev" \/ ev = NoEv)
    /\ (except = "rq" \/ rq = NoRq)
    /\ (except = "an" \/ an = NoAn)
    /\ (except = "bundle" \/ bundle = NoBundle)
    /\ (except = "pa" \/ pa = NoPa)
    /\ (except = "lr" \/ lr = NoLr)
    /\ (except = "dl" \/ dl = NoDl)
    /\ (except = "turn" \/ turn = NoTurn)
    /\ (except = "upd" \/ upd = NoUpd)
    /\ (except = "rl" \/ rl = NoRl)

\* the variables of the library functions other than one are left alone
LibFrame(except) ==
    /\ (IF except = "loc" THEN TRUE ELSE UNCHANGED loc)
    /\ (IF except = "ev" THEN TRUE ELSE UNCHANGED ev)
    /\ (IF except = "rq" THEN TRUE ELSE UNCHANGED rq)
    /\ (IF except = "an" THEN TRUE ELSE UNCHANGED an)
    /\ (IF except = "bundle" THEN TRUE ELSE UNCHANGED bundle)
    /\ (IF except = "pa" THEN TRUE ELSE UNCHANGED pa)
    /\ (IF except = "lr" THEN TRUE ELSE UNCHANGED lr)
    /\ (IF except = "dl" THEN TRUE ELSE UNCHANGED dl)
    /\ (IF except = "turn" THEN TRUE ELSE UNCHANGED turn)
    /\ (IF except = "upd" THEN TRUE ELSE UNCHANGED upd)
    /\ (IF except = "rl" THEN TRUE ELSE UNCHANGED rl)

\* Python's None, where a string is expected.
NoneVal == "<None>"

(***************************************************************************)
(* Strings.  The model's strings are drawn from small sets; lower(),       *)
(* upper() and strip() are given by their value on each of them.           *)
(***************************************************************************)
Lower(s) ==
    CASE s = "Unknown" -> "unknown"
      [] s = "UNKNOWN" -> "unknown"
      [] s = "None" -> "none"
      [] s = "NULL" -> "null"
      [] s = "Lagos, Nigeria" -> "lagos, nigeria"
      [] s = "Email" -> "email"
      [] s = "Phone" -> "phone"
      [] s = "By Email please" -> "by email please"
      [] OTHER -> s

Upper(s) ==
    CASE s = "processing" -> "PROCESSING"
      [] s = "Processing" -> "PROCESSING"
      [] s = "confirming" -> "CONFIRMING"
      [] s = "gathering" -> "GATHERING"
      [] s = "report" -> "REPORT"
      [] s = "advise" -> "ADVISE"
      [] s = "ask_location" -> "ASK_LOCATION"
      [] OTHER -> s

Strip(s) ==
    CASE s = " " -> ""
      [] s = "  " -> ""
      [] s = " Amina " -> "Amina"
      [] OTHER -> s

\* "sub in s" for the substring "email", over the model's contact preferences
ContainsEmail(s) == s \in {"email", "by email please"}

(***************************************************************************)
(* DecisionEngine (triage/decision_engine.py)                              *)
(***************************************************************************)
RiskScores == 1..10
Actions == {"ADVISE", "REPORT", "ASK_LOCATION"}
Locations == {NoneVal, "", "Unknown", "UNKNOWN", "None", "Lagos, Nigeria"}
Advices == {NoneVal, "Block the sender and document any further incidents."}

\* what a client returns: ThreatAnalysis / ImageAnalysis, already clamped by the client
Analyses ==
    [risk_score : RiskScores, action : Actions, location : Locations,
     summary : {"Threat detected"}, advice : Advices]

\* what a service call does: it returns an analysis or raises
ServiceOutcomes ==
    [kind : {"raise"}, exc : {"GroqClientError", "GeminiClientError", "Exception"}]
        \cup [kind : {"ok"}, analysis : Analyses]

\* what transcribe_audio does: it returns text (possibly empty) or raises
TranscribeOutcomes ==
    [kind : {"raise"}, exc : {"GroqClientError", "Exception"}]
        \cup [kind : {"ok"}, text : {"", "He said he will find me"}]

TriageResult(risk_score, action, location, summary, advice, source_type, error) ==
    [risk_score |-> risk_score, action |-> action, location |-> location,
     summary |-> summary, advice |-> advice, source_type |-> source_type,
     error |-> error]

BadFallbackResult(source_type, error_message) ==
    TriageResult(5, "ERROR", "Unknown", "", NoneVal, source_type, error_message)

get_fallback_result(source_type, error_message) ==
    TriageResult(5, "ADVISE", "Unknown",
        "Unable to fully analyze the content due to a technical issue",
        "If you feel threatened, please contact local emergency services directly. You can also try submitting again.",
        source_type, error_message)

\* the test of the safety override: not location or location.lower() in [...]
LocationMissing(location) ==
    \/ location = NoneVal
    \/ location = ""
    \/ Lower(location) \in {"unknown", "none", "null", ""}

SafetyOverride(analysis) ==
    IF analysis.risk_score >= 7 /\ LocationMissing(analysis.location)
    THEN [analysis EXCEPT !.action = "ASK_LOCATION"]
    ELSE analysis

analyze_text(outcome) ==
    IF outcome.kind = "raise"
    THEN get_fallback_result("text", outcome.exc)
    ELSE LET analysis == SafetyOverride(outcome.analysis)
         IN  TriageResult(analysis.risk_score, analysis.action, analysis.location,
                          analysis.summary, analysis.advice, "text", NoneVal)

\* analyze_image builds the result from the analysis as the client returned it
analyze_image(outcome) ==
    IF outcome.kind = "raise"
    THEN get_fallback_result("image", outcome.exc)
    ELSE LET analysis == outcome.analysis
         IN  TriageResult(analysis.risk_score, analysis.action, analysis.location,
                          analysis.summary, analysis.advice, "image", NoneVal)

analyze_image_bytes(outcome) ==
    IF outcome.kind = "raise"
    THEN get_fallback_result("image", outcome.exc)
    ELSE LET analysis == SafetyOverride(outcome.analysis)
         IN  TriageResult(analysis.risk_score, analysis.action, analysis.location,
                          analysis.summary, analysis.advice, "image", NoneVal)

analyze_audio(transcription, outcome) ==
    IF transcription.kind = "raise"
    THEN get_fallback_result("audio", transcription.exc)
    ELSE IF transcription.text = ""
    THEN TriageResult(1, "ADVISE", "Unknown", "No speech detected in the audio",
             "Please submit a clearer audio recording if needed.", "audio", NoneVal)
    ELSE LET text_result == analyze_text(outcome)
         IN  TriageResult(text_result.risk_score, text_result.action, text_result.location,
                          text_result.summary, text_result.advice, "audio", NoneVal)

\* which evidence process_evidence was given
EvidenceKinds == {"image_bytes", "image_path", "audio_path", "text", "none"}

process_evidence(evidence, transcription, outcome) ==
    CASE evidence = "image_bytes" -> analyze_image_bytes(outcome)
      [] evidence = "image_path" -> analyze_image(outcome)
      [] evidence = "audio_path" -> analyze_audio(transcription, outcome)
      [] evidence = "text" -> analyze_text(outcome)
      [] OTHER -> TriageResult(1, "ADVISE", "Unknown", "No evidence provided for analysis",
                     "Please provide a message, screenshot, or voice note to analyze.",
                     "unknown", "No evidence provided")

NoTranscription == [kind |-> "ok", text |-> ""]
NoResult == TriageResult(1, "ADVISE", "Unknown", "none", NoneVal, "unset", NoneVal)

Call(fn, evidence, transcription, outcome) ==
    [fn |-> fn, evidence |-> evidence, transcription |-> transcription, outcome |-> outcome]

\* the calls a caller can make, with what the services do during each
Calls ==
    {Call(fn, "none", NoTranscription, outcome) :
        fn \in {"analyze_text", "analyze_image", "analyze_image_bytes"},
        outcome \in ServiceOutcomes}
    \cup {Call("analyze_audio", "none", transcription, outcome) :
        transcription \in TranscribeOutcomes, outcome \in ServiceOutcomes}
    \cup {Call("process_evidence", evidence, transcription, outcome) :
        evidence \in EvidenceKinds, transcription \in TranscribeOutcomes,
        outcome \in ServiceOutcomes}

AnalyzeText ==
    /\ de_call.fn = "analyze_text"
    /\ de_result = NoResult
    /\ de_result' = analyze_text(de_call.outcome)
    /\ UNCHANGED <<de_call, parseVars, sessionVars, libVars>>

AnalyzeImage ==
    /\ de_call.fn = "analyze_image"
    /\ de_result = NoResult
    /\ de_result' = analyze_image(de_call.outcome)
    /\ UNCHANGED <<de_call, parseVars, sessionVars, libVars>>

AnalyzeImageBytes ==
    /\ de_call.fn = "analyze_image_bytes"
    /\ de_result = NoResult
    /\ de_result' = analyze_image_bytes(de_call.outcome)
    /\ UNCHANGED <<de_call, parseVars, sessionVars, libVars>>

AnalyzeAudio ==
    /\ de_call.fn = "analyze_audio"
    /\ de_result = NoResult
    /\ de_result' = analyze_audio(de_call.transcription, de_call.outcome)
    /\ UNCHANGED <<de_call, parseVars, sessionVars, libVars>>

ProcessEvidence ==
    /\ de_call.fn = "process_evidence"
    /\ de_result = NoResult
    /\ de_result' = process_evidence(de_call.evidence, de_call.transcription, de_call.outcome)
    /\ UNCHANGED <<de_call, parseVars, sessionVars, libVars>>

(***************************************************************************)
(* ConversationEngine._parse_llm_response and                              *)
(* DecisionEngine.check_required_fields                                    *)
(***************************************************************************)
ConversationStates ==
    {"IDLE", "GATHERING", "ASKING_LOCATION", "CONFIRMING", "PROCESSING", "LOW_RISK_ADVISE"}

\* gathered_info: a key the reply leaves out holds NoneVal (NoRisk for risk_score)
NoRisk == -1
InfoRisks == {NoRisk, 5, 6, 7, 8}
InfoLocations == {NoneVal, "Unknown", "Lagos, Nigeria"}
InfoConfirmed == {NoneVal, "true", "false"}
InfoNames == {NoneVal, " ", "Amina"}
InfoDescriptions == {NoneVal, "He threatened to kill me"}
InfoContacts == {NoneVal, "phone", "Email"}
InfoEmails == {NoneVal, "amina@example.org"}

GatheredInfos ==
    [risk_score : InfoRisks, location : InfoLocations, user_confirmed : InfoConfirmed,
     reporter_name : InfoNames, incident_description : InfoDescriptions,
     contact_preference : InfoContacts, reporter_email : InfoEmails,
     missing_fields : {<<>>}]

EmptyInfo ==
    [risk_score |-> NoRisk, location |-> NoneVal, user_confirmed |-> NoneVal,
     reporter_name |-> NoneVal, incident_description |-> NoneVal,
     contact_preference |-> NoneVal, reporter_email |-> NoneVal,
     missing_fields |-> <<>>]

\* the "state" of a reply: absent, a declared state in some letter case, or anything else
ReplyStates == ConversationStates \cup {NoneVal, "processing", "DONE"}
ReplyTexts == {NoneVal, "I see the threat."}

\* the content handed to the parser: a JSON object, or text that is not JSON
LlmReplies ==
    [json : {TRUE}, state : ReplyStates, response : ReplyTexts, gathered_info : GatheredInfos]
        \cup [json : {FALSE}, text : {"", "Sorry, I cannot help"}]

ConversationResponse(message, state, gathered_info, should_create_report, is_low_risk, error) ==
    [message |-> message, state |-> state, gathered_info |-> gathered_info,
     should_create_report |-> should_create_report, is_low_risk |-> is_low_risk,
     error |-> error]

\* (info.get(f) or "").strip() if it is a string
FieldValue(info, f) == IF info[f] = NoneVal THEN "" ELSE Strip(info[f])

REQUIRED_FIELDS == <<"reporter_name", "incident_description", "contact_preference">>

RECURSIVE MissingOf(_, _, _)
MissingOf(info, fields, i) ==
    IF i > Len(fields) THEN <<>>
    ELSE (IF FieldValue(info, fields[i]) = "" THEN <<fields[i]>> ELSE <<>>)
             \o MissingOf(info, fields, i + 1)

check_required_fields(info) ==
    LET missing == MissingOf(info, REQUIRED_FIELDS, 1)
        contact_pref == IF info.contact_preference = NoneVal THEN ""
                        ELSE Lower(info.contact_preference)
        email == IF ContainsEmail(contact_pref) /\ FieldValue(info, "reporter_email") = ""
                 THEN <<"reporter_email">> ELSE <<>>
        risk_score == IF info.risk_score = NoRisk THEN 0 ELSE info.risk_score
        location == IF risk_score >= 7
                       /\ (FieldValue(info, "location") = ""
                           \/ FieldValue(info, "location") = "Unknown")
                    THEN <<"location">> ELSE <<>>
    IN  missing \o email \o location

parse_llm_response(content) ==
    IF ~content.json
    THEN ConversationResponse(
             IF content.text # "" THEN content.text
             ELSE "I'm here to help. Can you tell me more about what happened?",
             "GATHERING", EmptyInfo, FALSE, FALSE, "JSON parse error")
    ELSE LET state_str == IF content.state = NoneVal THEN "GATHERING" ELSE Upper(content.state)
             state == IF state_str \in ConversationStates THEN state_str ELSE "GATHERING"
         IN  ConversationResponse(
                 IF content.response = NoneVal THEN "I'm here to help. Can you tell me more?"
                 ELSE content.response,
                 state, content.gathered_info,
                 state = "PROCESSING", state = "LOW_RISK_ADVISE", NoneVal)

NotParsed == ConversationResponse("", "IDLE", EmptyInfo, FALSE, FALSE, "not parsed")
NoReply == [json |-> FALSE, text |-> ""]

ParseLlmResponse ==
    /\ parsed = NotParsed
    /\ parsed' = parse_llm_response(llm_reply)
    /\ UNCHANGED <<llm_reply, engineVars, sessionVars, libVars>>

(***************************************************************************)
(* The chat session and the Telegram webhook workers                       *)
(* (triage/models.py, intake/webhook_service.py, intake/views.py).         *)
(* TelegramWebhookView.post hands every update to a pool of worker         *)
(* threads, whatever its chat; the model has one chat, so every update is  *)
(* an update of the same (chat_id, platform).  A worker step holds one     *)
(* access to the stored row; Model.save() writes every field of the        *)
(* worker's instance, refresh_from_db() reloads every field.               *)
(***************************************************************************)
MaxWorkers == 2
CooldownSeconds == 60
MaxUpdates == 2
TickSeconds == 30
MaxTime == 60

Workers == 1..MaxWorkers

\* cancelled_until = None
Never == 0
\* pending_report_data = None
NoCase == 0

InitialSession ==
    [conversation_state |-> "IDLE", gathered_evidence |-> EmptyInfo,
     awaiting_location |-> FALSE, pending_report_data |-> NoCase,
     cancelled_until |-> Never, last_detected_location |-> NoneVal]

is_cancelled(s) == s.cancelled_until # Never /\ s.cancelled_until > now

KeepEvidenceOnCancel(s, seconds) ==
    [s EXCEPT !.cancelled_until = now + seconds,
              !.awaiting_location = FALSE,
              !.pending_report_data = NoCase,
              !.conversation_state = "IDLE"]

set_cancelled(s, seconds) ==
    [s EXCEPT !.cancelled_until = now + seconds,
              !.awaiting_location = FALSE,
              !.pending_report_data = NoCase,
              !.conversation_state = "IDLE",
              !.gathered_evidence = EmptyInfo]

reset_conversation(s) ==
    [s EXCEPT !.conversation_state = "IDLE",
              !.gathered_evidence = EmptyInfo,
              !.awaiting_location = FALSE,
              !.pending_report_data = NoCase]

\* {**a, **b}: the keys of b override those of a
MergeEvidence(a, b) ==
    [k \in DOMAIN a |->
        IF k = "risk_score" THEN (IF b[k] = NoRisk THEN a[k] ELSE b[k])
        ELSE IF k = "missing_fields" THEN (IF b[k] = <<>> THEN a[k] ELSE b[k])
        ELSE IF b[k] = NoneVal THEN a[k] ELSE b[k]]

\* the kinds of update process_update tells apart
UpdateKinds ==
    {"callback", "safe_word", "command", "text", "photo", "voice",
     "document_image", "document_audio", "document_other", "empty"}

\* what the user types when asked for a location
LocationText == "Lagos, Nigeria"

InfoName == [EmptyInfo EXCEPT !.reporter_name = "Amina"]
InfoIncident ==
    [EmptyInfo EXCEPT !.incident_description = "He threatened to kill me", !.risk_score = 8]
InfoLowRisk == [EmptyInfo EXCEPT !.risk_score = 5]
InfoComplete ==
    [InfoIncident EXCEPT !.reporter_name = "Amina", !.contact_preference = "phone",
                         !.location = "Lagos, Nigeria", !.user_confirmed = "true"]

\* the replies of the conversation model within a turn
TurnReplies ==
    {[json |-> TRUE, state |-> "GATHERING", response |-> "I see the threat.",
      gathered_info |-> InfoName],
     [json |-> TRUE, state |-> "CONFIRMING", response |-> "I see the threat.",
      gathered_info |-> [InfoComplete EXCEPT !.user_confirmed = NoneVal]],
     [json |-> TRUE, state |-> "PROCESSING", response |-> "I see the threat.",
      gathered_info |-> InfoIncident],
     [json |-> TRUE, state |-> "PROCESSING", response |-> "I see the threat.",
      gathered_info |-> InfoComplete],
     [json |-> TRUE, state |-> "LOW_RISK_ADVISE", response |-> "I see the threat.",
      gathered_info |-> InfoLowRisk],
     [json |-> FALSE, text |-> "Sorry, I cannot help"]}

get_fallback_response ==
    ConversationResponse("I'm here for you. Can you tell me what's happening? I'm listening.",
        "GATHERING", EmptyInfo, FALSE, FALSE, "AI service unavailable")

engine_error_response ==
    ConversationResponse("I'm having a moment of trouble. Please try again, or if it's urgent, type HELP for emergency resources.",
        "IDLE", EmptyInfo, FALSE, FALSE, "engine error")

\* what process_message can return: the parsed reply, the fallback when the
\* model is unavailable or its call fails, the error response when the
\* engine itself fails
TurnResponses ==
    {parse_llm_response(r) : r \in TurnReplies}
        \cup {get_fallback_response, engine_error_response}

NoResponse == NotParsed

\* the analyses of the text service and the transcriptions within a report
ReportOutcomes ==
    {[kind |-> "raise", exc |-> "GroqClientError"],
     [kind |-> "ok", analysis |-> [risk_score |-> 8, action |-> "REPORT",
          location |-> "Lagos, Nigeria", summary |-> "Threat detected", advice |-> NoneVal]],
     [kind |-> "ok", analysis |-> [risk_score |-> 8, action |-> "REPORT",
          location |-> "Unknown", summary |-> "Threat detected", advice |-> NoneVal]],
     [kind |-> "ok", analysis |-> [risk_score |-> 3, action |-> "ADVISE",
          location |-> "Unknown", summary |-> "Threat detected", advice |-> NoneVal]]}

ReportTranscriptions ==
    {[kind |-> "raise", exc |-> "GroqClientError"],
     [kind |-> "ok", text |-> "He said he will find me"]}

\* _dispatch_to_partner: the dispatcher is not configured, no partner covers
\* the location, or the dispatch log is created and the email enqueued
DispatchOutcomes == {"unavailable", "no_partner", "sent"}

\* the dict a process_*_report call returns: its action, and whether a
\* dispatch was started for the case
ReportResult(action, dispatched, case_id) ==
    [action |-> action, dispatched |-> dispatched, case_id |-> case_id]

NoReportResult == ReportResult("none", FALSE, NoCase)

\* the part of process_text_report / process_audio_report after the analysis
DispatchWhateverAction(triage, dispatch, case_id) ==
    IF dispatch = "no_partner" THEN ReportResult("ask_location", FALSE, case_id)
    ELSE ReportResult(IF Upper(triage.action) = "REPORT" THEN "report" ELSE "advise",
                      dispatch = "sent", case_id)

ReportAfterAnalysis(triage, dispatch, case_id) ==
    IF Upper(triage.action) = "REPORT"
    THEN (IF dispatch = "no_partner" THEN ReportResult("ask_location", FALSE, case_id)
          ELSE ReportResult("report", dispatch = "sent", case_id))
    ELSE IF Upper(triage.action) = "ASK_LOCATION"
         THEN ReportResult("ask_location", FALSE, case_id)
    ELSE ReportResult("advise", FALSE, case_id)

\* process_image_report: the call analyze_image(f, mime_type) passes one
\* argument more than DecisionEngine.analyze_image takes; the TypeError is
\* caught and the error result returned
process_image_report(case_id) == ReportResult("error", FALSE, case_id)

\* the fields _create_and_send_report finds missing
CreateReportMissing(gathered_info, s) ==
    LET location == IF gathered_info.location \notin {NoneVal, ""} THEN gathered_info.location
                    ELSE IF s.last_detected_location \notin {NoneVal, ""}
                         THEN s.last_detected_location
                    ELSE "Unknown"
        risk_score == IF gathered_info.risk_score = NoRisk THEN 7 ELSE gathered_info.risk_score
    IN  (IF FieldValue(gathered_info, "reporter_name") = ""
         THEN <<"your name (or a safe nickname)">> ELSE <<>>)
        \o (IF risk_score >= 7 /\ (location = "" \/ location = "Unknown")
            THEN <<"your city and country">> ELSE <<>>)
        \o (IF FieldValue(gathered_info, "incident_description") = ""
            THEN <<"a description of what happened">> ELSE <<>>)
        \o (IF FieldValue(gathered_info, "contact_preference") = ""
            THEN <<"contact preference (email/phone/none)">> ELSE <<>>)

\* what handle_text does once the reply is sent
AlwaysReportBranch(r) ==
    IF r.should_create_report \/ r.state = "CONFIRMING" THEN "report"
    ELSE IF r.is_low_risk THEN "low_risk"
    ELSE "done"

AfterReplyBranch(r) ==
    IF r.should_create_report THEN "report"
    ELSE IF r.is_low_risk THEN "low_risk"
    ELSE "done"

\* the rows the model records for an IncidentReport and a DispatchLog, with
\* the circumstances of their creation: the kind of handler (via), the
\* turn's should_create_report, whether the stored session was cancelled,
\* and whether a safe word had been handled while the turn was in flight
CaseRow(w, via, action) ==
    [via |-> via, action |-> action,
     scr |-> response[w].should_create_report,
     cooldown |-> is_cancelled(db),
     midflight |-> midflight[w] > now]

DispatchRow(w, via, case_id) ==
    [case_id |-> case_id, via |-> via,
     scr |-> response[w].should_create_report,
     cooldown |-> is_cancelled(db),
     midflight |-> midflight[w] > now]

\* the pcs of a text turn between the loading of its history and its reply
InFlightText == {"text_llm", "text_saved", "text_checked"}

Finish(w) ==
    /\ pc' = [pc EXCEPT ![w] = "idle"]
    /\ session' = [session EXCEPT ![w] = InitialSession]
    /\ msg' = [msg EXCEPT ![w] = "none"]
    /\ response' = [response EXCEPT ![w] = NoResponse]
    /\ result' = [result EXCEPT ![w] = NoReportResult]
    /\ midflight' = [midflight EXCEPT ![w] = Never]

\* process_update up to the choice of a handler: the session is loaded,
\* the update told apart; callbacks, commands and unsupported updates are
\* answered at once
ProcessUpdate(w) ==
    /\ pc[w] = "idle"
    /\ UNCHANGED <<engineVars, parseVars, libVars>>
    /\ updates < MaxUpdates
    /\ updates' = updates + 1
    /\ \E kind \in UpdateKinds :
        LET next == CASE kind = "safe_word" -> "safe_word"
                      [] kind = "text" -> IF db.awaiting_location THEN "location" ELSE "text"
                      [] kind \in {"photo", "document_image"} -> "photo"
                      [] kind \in {"voice", "document_audio"} -> "voice"
                      [] OTHER -> "idle"
        IN  /\ pc' = [pc EXCEPT ![w] = next]
            /\ msg' = [msg EXCEPT ![w] = IF next = "idle" THEN "none" ELSE kind]
            /\ session' = [session EXCEPT ![w] = IF next = "idle" THEN InitialSession ELSE db]
    /\ UNCHANGED <<db, now, response, result, cases, dispatches, midflight, last_safe_word>>

\* the safe-word branch: set_cancelled(seconds=60), then the safety message
SafeWord(w) ==
    /\ pc[w] = "safe_word"
    /\ UNCHANGED <<engineVars, parseVars, libVars>>
    /\ db' = set_cancelled(session[w], CooldownSeconds)
    /\ session' = [session EXCEPT ![w] = InitialSession]
    /\ last_safe_word' = now
    /\ midflight' = [v \in Workers |->
           IF v # w /\ pc[v] \in InFlightText THEN now + CooldownSeconds ELSE midflight[v]]
    /\ pc' = [pc EXCEPT ![w] = "idle"]
    /\ msg' = [msg EXCEPT ![w] = "none"]
    /\ UNCHANGED <<now, updates, response, result, cases, dispatches>>

\* handle_text: the typing indicator, then process_message
CallLlm(w) ==
    /\ pc[w] = "text"
    /\ UNCHANGED <<engineVars, parseVars, libVars>>
    /\ \E r \in TurnResponses : response' = [response EXCEPT ![w] = r]
    /\ pc' = [pc EXCEPT ![w] = "text_llm"]
    /\ UNCHANGED <<db, now, updates, msg, session, result, cases, dispatches,
                   midflight, last_safe_word>>

\* handle_text: the response is merged into the instance and the instance saved
SaveSession(w) ==
    /\ pc[w] = "text_llm"
    /\ UNCHANGED <<engineVars, parseVars, libVars>>
    /\ session' = [session EXCEPT ![w] =
           [@ EXCEPT !.conversation_state = response[w].state,
                     !.gathered_evidence =
                         IF response[w].gathered_info # EmptyInfo
                         THEN MergeEvidence(@, response[w].gathered_info) ELSE @]]
    /\ db' = session'[w]
    /\ pc' = [pc EXCEPT ![w] = "text_saved"]
    /\ UNCHANGED <<now, updates, msg, response, result, cases, dispatches,
                   midflight, last_safe_word>>

\* handle_text: refresh_from_db and the check of the cancellation
CheckCancelled(w) ==
    /\ pc[w] = "text_saved"
    /\ UNCHANGED <<engineVars, parseVars, libVars>>
    /\ IF is_cancelled(db)
       THEN Finish(w)
       ELSE /\ session' = [session EXCEPT ![w] = db]
            /\ pc' = [pc EXCEPT ![w] = "text_checked"]
            /\ UNCHANGED <<msg, response, result, midflight>>
    /\ UNCHANGED <<db, now, updates, cases, dispatches, last_safe_word>>

\* handle_text: the reply is sent to the user
SendReply(w) ==
    /\ pc[w] = "text_checked"
    /\ UNCHANGED <<engineVars, parseVars, libVars>>
    /\ pc' = [pc EXCEPT ![w] = "text_replied"]
    /\ UNCHANGED <<db, now, updates, msg, session, response, result, cases, dispatches,
                   midflight, last_safe_word>>

\* handle_text after the reply: _create_and_send_report up to the creation
\* of the case, or the reset after low-risk advice, or nothing
AfterReply(w) ==
    /\ pc[w] = "text_replied"
    /\ UNCHANGED <<engineVars, parseVars, libVars>>
    /\ LET branch == AfterReplyBranch(response[w])
           info == response[w].gathered_info
       IN  CASE branch = "report" /\ CreateReportMissing(info, session[w]) # <<>> ->
                    /\ db' = [session[w] EXCEPT !.conversation_state = "GATHERING"]
                    /\ Finish(w)
                    /\ UNCHANGED <<cases, dispatches>>
             [] branch = "report" /\ CreateReportMissing(info, session[w]) = <<>> ->
                    \E outcome \in ReportOutcomes, dispatch \in DispatchOutcomes :
                        LET r == ReportAfterAnalysis(analyze_text(outcome), dispatch,
                                                     Len(cases) + 1)
                        IN  /\ cases' = Append(cases, CaseRow(w, "text", r.action))
                            /\ dispatches' = IF r.dispatched
                                 THEN dispatches \cup {DispatchRow(w, "text", Len(cases) + 1)}
                                 ELSE dispatches
                            /\ result' = [result EXCEPT ![w] = r]
                            /\ pc' = [pc EXCEPT ![w] = "report_created"]
                            /\ UNCHANGED <<db, session, msg, response, midflight>>
             [] branch = "low_risk" ->
                    /\ db' = [session[w] EXCEPT !.conversation_state = "IDLE",
                                                !.gathered_evidence = EmptyInfo]
                    /\ Finish(w)
                    /\ UNCHANGED <<cases, dispatches>>
             [] OTHER ->
                    /\ Finish(w)
                    /\ UNCHANGED <<db, cases, dispatches>>
    /\ UNCHANGED <<now, updates, last_safe_word>>

\* _create_and_send_report: session.reset_conversation()
ResetAfterReport(w) ==
    /\ pc[w] = "report_created"
    /\ UNCHANGED <<engineVars, parseVars, libVars>>
    /\ session' = [session EXCEPT ![w] = reset_conversation(@)]
    /\ db' = session'[w]
    /\ pc' = [pc EXCEPT ![w] = "send_result"]
    /\ UNCHANGED <<now, updates, msg, response, result, cases, dispatches,
                   midflight, last_safe_word>>

\* handle_photo / handle_document_image: the download, then process_image_report
HandlePhoto(w) ==
    /\ pc[w] = "photo"
    /\ UNCHANGED <<engineVars, parseVars, libVars>>
    /\ \E downloaded \in BOOLEAN :
        IF downloaded
        THEN /\ cases' = Append(cases, CaseRow(w, "photo", "pending"))
             /\ result' = [result EXCEPT ![w] = process_image_report(Len(cases) + 1)]
             /\ pc' = [pc EXCEPT ![w] = "send_result"]
             /\ UNCHANGED <<msg, session, response, midflight>>
        ELSE /\ Finish(w)
             /\ UNCHANGED cases
    /\ UNCHANGED <<db, now, updates, dispatches, last_safe_word>>

\* handle_voice / handle_document_audio: the download, then process_audio_report
HandleVoice(w) ==
    /\ pc[w] = "voice"
    /\ UNCHANGED <<engineVars, parseVars, libVars>>
    /\ \E downloaded \in BOOLEAN :
        IF downloaded
        THEN \E transcription \in ReportTranscriptions, outcome \in ReportOutcomes,
                dispatch \in DispatchOutcomes :
                LET r == ReportAfterAnalysis(analyze_audio(transcription, outcome), dispatch,
                                             Len(cases) + 1)
                IN  /\ cases' = Append(cases, CaseRow(w, "voice", r.action))
                    /\ dispatches' = IF r.dispatched
                         THEN dispatches \cup {DispatchRow(w, "voice", Len(cases) + 1)}
                         ELSE dispatches
                    /\ result' = [result EXCEPT ![w] = r]
                    /\ pc' = [pc EXCEPT ![w] = "send_result"]
                    /\ UNCHANGED <<msg, session, response, midflight>>
        ELSE /\ Finish(w)
             /\ UNCHANGED <<cases, dispatches>>
    /\ UNCHANGED <<db, now, updates, last_safe_word>>

\* handle_location_response: the text is the location; the pending case, if
\* any, is dispatched by update_location_and_dispatch (pending_report_data
\* never holds a 'text' key, so no new report is processed here)
HandleLocationResponse(w) ==
    /\ pc[w] = "location"
    /\ UNCHANGED <<engineVars, parseVars, libVars>>
    /\ db' = [session[w] EXCEPT !.last_detected_location = LocationText,
                                !.awaiting_location = FALSE,
                                !.pending_report_data = NoCase,
                                !.conversation_state = "IDLE"]
    /\ IF session[w].pending_report_data # NoCase
       THEN \E dispatch \in DispatchOutcomes :
                dispatches' = IF dispatch = "sent"
                    THEN dispatches \cup
                             {DispatchRow(w, "location", session[w].pending_report_data)}
                    ELSE dispatches
       ELSE UNCHANGED dispatches
    /\ Finish(w)
    /\ UNCHANGED <<now, updates, cases, last_safe_word>>

\* send_result: refresh_from_db, the check of the cancellation, the message
SendResult(w) ==
    /\ pc[w] = "send_result"
    /\ UNCHANGED <<engineVars, parseVars, libVars>>
    /\ IF ~is_cancelled(db) /\ result[w].action = "ask_location"
       THEN /\ session' = [session EXCEPT ![w] = db]
            /\ pc' = [pc EXCEPT ![w] = "save_pending"]
            /\ UNCHANGED <<msg, response, result, midflight>>
       ELSE Finish(w)
    /\ UNCHANGED <<db, now, updates, cases, dispatches, last_safe_word>>

\* send_result, action ask_location: the pending case is stored on the session
SavePending(w) ==
    /\ pc[w] = "save_pending"
    /\ UNCHANGED <<engineVars, parseVars, libVars>>
    /\ db' = [session[w] EXCEPT !.pending_report_data = result[w].case_id,
                                !.awaiting_location = TRUE,
                                !.conversation_state = "ASKING_LOCATION"]
    /\ Finish(w)
    /\ UNCHANGED <<now, updates, cases, dispatches, last_safe_word>>

\* time passes
Tick ==
    /\ now + TickSeconds <= MaxTime
    /\ UNCHANGED <<engineVars, parseVars, libVars>>
    /\ now' = now + TickSeconds
    /\ UNCHANGED <<db, updates, pc, msg, session, response, result, cases, dispatches,
                   midflight, last_safe_word>>

(***************************************************************************)
(* Specifications                                                          *)
(***************************************************************************)
vars ==
    <<de_call, de_result, llm_reply, parsed, db, now, updates, pc, msg, session,
      response, result, cases, dispatches, midflight, last_safe_word, loc,
      ev,
      rq,
      an,
      bundle,
      pa,
      lr,
      dl,
      turn,
      upd,
      rl>>

NoCall == Call("none", "none", NoTranscription, [kind |-> "raise", exc |-> "Exception"])

\* no update has arrived: the session row holds the defaults of its fields
SessionInit ==
    /\ db = InitialSession
    /\ now = 0
    /\ updates = 0
    /\ pc = [w \in Workers |-> "idle"]
    /\ msg = [w \in Workers |-> "none"]
    /\ session = [w \in Workers |-> InitialSession]
    /\ response = [w \in Workers |-> NoResponse]
    /\ result = [w \in Workers |-> NoReportResult]
    /\ cases = <<>>
    /\ dispatches = {}
    /\ midflight = [w \in Workers |-> Never]
    /\ last_safe_word = -1

EngineInit ==
    /\ de_call \in Calls
    /\ de_result = NoResult
    /\ llm_reply = NoReply
    /\ parsed = NotParsed
    /\ SessionInit
    /\ LibIdle("none")

EngineNext ==
    \/ AnalyzeText
    \/ AnalyzeImage
    \/ AnalyzeImageBytes
    \/ AnalyzeAudio
    \/ ProcessEvidence

SpecEngine == EngineInit /\ [][EngineNext]_vars

ParseInit ==
    /\ llm_reply \in LlmReplies
    /\ parsed = NotParsed
    /\ de_call = NoCall
    /\ de_result = NoResult
    /\ SessionInit
    /\ LibIdle("none")

ParseNext == ParseLlmResponse

SpecParse == ParseInit /\ [][ParseNext]_vars

Init ==
    /\ de_call = NoCall
    /\ de_result = NoResult
    /\ llm_reply = NoReply
    /\ parsed = NotParsed
    /\ SessionInit
    /\ LibIdle("none")

Next ==
    \/ \E w \in Workers : ProcessUpdate(w)
    \/ \E w \in Workers : SafeWord(w)
    \/ \E w \in Workers : CallLlm(w)
    \/ \E w \in Workers : SaveSession(w)
    \/ \E w \in Workers : CheckCancelled(w)
    \/ \E w \in Workers : SendReply(w)
    \/ \E w \in Workers : AfterReply(w)
    \/ \E w \in Workers : ResetAfterReport(w)
    \/ \E w \in Workers : HandlePhoto(w)
    \/ \E w \in Workers : HandleVoice(w)
    \/ \E w \in Workers : HandleLocationResponse(w)
    \/ \E w \in Workers : SendResult(w)
    \/ \E w \in Workers : SavePending(w)
    \/ Tick

Spec == Init /\ [][Next]_vars

(***************************************************************************)
(* Properties of the DecisionEngine entry points (SpecEngine)              *)
(***************************************************************************)
Returned == de_result # NoResult

\* C1: every TriageResult returned by analyze_text, analyze_image,
\* analyze_image_bytes, analyze_audio or process_evidence that has
\* risk_score >= 7 and a location that is None, empty or "Unknown" has
\* action ASK_LOCATION.
C1_SafetyOverrideOnEveryEntryPoint ==
    (Returned /\ de_result.risk_score >= 7 /\ de_result.location \in {NoneVal, "", "Unknown"})
        => de_result.action = "ASK_LOCATION"

\* the service the entry point relies on raised during the call
ServiceRaised ==
    CASE de_call.fn \in {"analyze_text", "analyze_image", "analyze_image_bytes"} ->
             de_call.outcome.kind = "raise"
      [] de_call.fn = "analyze_audio" ->
             \/ de_call.transcription.kind = "raise"
             \/ de_call.transcription.kind = "ok" /\ de_call.transcription.text # ""
                    /\ de_call.outcome.kind = "raise"
      [] OTHER -> FALSE

\* C2: when the service behind analyze_text, analyze_image, analyze_image_bytes
\* or analyze_audio raises, the entry point returns the fixed fallback result:
\* risk_score 5, action ADVISE (one of the three actions), summary and advice
\* not empty.
C2_FallbackNonThrow ==
    (Returned /\ ServiceRaised) =>
        /\ de_result.risk_score = 5
        /\ de_result.action = "ADVISE"
        /\ de_result.action \in Actions
        /\ de_result.summary # ""
        /\ de_result.advice \notin {"", NoneVal}

C2_Witness ==
    /\ Returned
    /\ de_call.fn = "analyze_audio"
    /\ de_call.transcription.kind = "ok"
    /\ de_call.transcription.text # ""
    /\ de_call.outcome.kind = "raise"
    /\ de_result.source_type = "audio"
    /\ de_result.risk_score = 5

(***************************************************************************)
(* Properties of _parse_llm_response (SpecParse)                           *)
(***************************************************************************)
Parsed == parsed # NotParsed

ProposesProcessing ==
    /\ llm_reply.json
    /\ llm_reply.state # NoneVal
    /\ Upper(llm_reply.state) = "PROCESSING"

\* the mandatory fields a reply's gathered_info lacks, location left aside
MandatoryMissing(info) ==
    SelectSeq(check_required_fields(info), LAMBDA f : f # "location")

NoUsableLocation(info) == FieldValue(info, "location") \in {"", "Unknown"}

\* C8: a reply that proposes PROCESSING while gathered_info lacks
\* reporter_name, incident_description or contact_preference, or lacks
\* reporter_email while contact_preference mentions email, is returned with
\* should_create_report false, state GATHERING and the missing fields listed
\* under gathered_info.missing_fields, whatever the risk score.
C8_MandatoryFieldGate ==
    (Parsed /\ ProposesProcessing /\ MandatoryMissing(llm_reply.gathered_info) # <<>>) =>
        /\ parsed.should_create_report = FALSE
        /\ parsed.state = "GATHERING"
        /\ parsed.gathered_info.missing_fields = MandatoryMissing(llm_reply.gathered_info)

\* C9: a reply that proposes PROCESSING with risk_score >= 7 and no usable
\* location in gathered_info is returned with state ASKING_LOCATION and
\* should_create_report false.
C9_HighRiskRequiresLocation ==
    (Parsed /\ ProposesProcessing /\ llm_reply.gathered_info.risk_score >= 7
        /\ NoUsableLocation(llm_reply.gathered_info)) =>
        /\ parsed.state = "ASKING_LOCATION"
        /\ parsed.should_create_report = FALSE

\* C10: for a reply with risk_score >= 7, should_create_report is false
\* unless user_confirmed is true; a proposed PROCESSING without that
\* confirmation (location and mandatory fields being there) is returned as
\* CONFIRMING.
C10_ConfirmationGate ==
    (Parsed /\ llm_reply.json /\ llm_reply.gathered_info.risk_score >= 7
        /\ llm_reply.gathered_info.user_confirmed # "true") =>
        /\ parsed.should_create_report = FALSE
        /\ (ProposesProcessing /\ check_required_fields(llm_reply.gathered_info) = <<>>)
               => parsed.state = "CONFIRMING"

(***************************************************************************)
(* Properties of the webhook workers (Spec)                                *)
(***************************************************************************)
CaseIds == 1..Len(cases)

C4_SafeWordSuppressesInFlightTurn ==
    /\ \A w \in Workers : pc[w] = "text_replied" => midflight[w] <= now
    /\ \A i \in CaseIds : ~cases[i].midflight

\* C5: at most one update of the chat is being processed at any time.
C5_OneUpdateInFlightPerChat ==
    Cardinality({w \in Workers : pc[w] # "idle"}) <= 1

\* the cooldown of the last safe word handled is still running
InCooldownWindow ==
    last_safe_word >= 0 /\ now < last_safe_word + CooldownSeconds

\* C6: handling a safe word leaves the stored session in IDLE with empty
\* gathered_evidence, no pending location request and no pending report
\* data, and cancelled; the session stays cancelled for the 60 seconds that
\* follow.
C6_SafeWordResetsAndCancels ==
    /\ [][\A w \in Workers : SafeWord(w) =>
            (/\ db.conversation_state = "IDLE"
             /\ db.gathered_evidence = EmptyInfo
             /\ ~db.awaiting_location
             /\ db.pending_report_data = NoCase
             /\ is_cancelled(db))']_vars
    /\ [](InCooldownWindow => is_cancelled(db))

\* C7: no incident report is created and no dispatch started while the
\* stored session is cancelled.
C7_NoReportDuringCooldown ==
    /\ \A i \in CaseIds : ~cases[i].cooldown
    /\ \A d \in dispatches : ~d.cooldown

(***************************************************************************)
(* The two safe-word handlers applied in succession to a stored session    *)
(* (SpecSafeWord): the safe-word branch of process_update, which calls     *)
(* set_cancelled(seconds=60), and ConversationEngine.handle_safe_word,     *)
(* which calls reset_conversation.  updates counts the calls.              *)
(***************************************************************************)
MaxSafeWords == 2

\* the rows a session can hold when a safe word arrives
SessionRows ==
    [conversation_state : ConversationStates,
     gathered_evidence : {EmptyInfo, InfoName, InfoIncident, InfoComplete},
     awaiting_location : BOOLEAN,
     pending_report_data : {NoCase, 1},
     cancelled_until : {Never, CooldownSeconds},
     last_detected_location : {NoneVal, LocationText}]

WorkersIdle ==
    /\ updates = 0
    /\ now = 0
    /\ pc = [w \in Workers |-> "idle"]
    /\ msg = [w \in Workers |-> "none"]
    /\ session = [w \in Workers |-> InitialSession]
    /\ response = [w \in Workers |-> NoResponse]
    /\ result = [w \in Workers |-> NoReportResult]
    /\ cases = <<>>
    /\ dispatches = {}
    /\ midflight = [w \in Workers |-> Never]
    /\ last_safe_word = -1

SafeWordInit ==
    /\ de_call = NoCall
    /\ de_result = NoResult
    /\ llm_reply = NoReply
    /\ parsed = NotParsed
    /\ db \in SessionRows
    /\ WorkersIdle
    /\ LibIdle("none")

\* process_update, safe-word branch, run to its end by one worker
SafeWordBranch ==
    /\ updates < MaxSafeWords
    /\ updates' = updates + 1
    /\ db' = set_cancelled(db, CooldownSeconds)
    /\ last_safe_word' = now
    /\ UNCHANGED <<engineVars, parseVars, libVars, now, pc, msg, session, response, result,
                   cases, dispatches, midflight>>

\* ConversationEngine.handle_safe_word
HandleSafeWord ==
    /\ updates < MaxSafeWords
    /\ updates' = updates + 1
    /\ db' = reset_conversation(db)
    /\ last_safe_word' = now
    /\ UNCHANGED <<engineVars, parseVars, libVars, now, pc, msg, session, response, result,
                   cases, dispatches, midflight>>

SafeWordNext ==
    \/ SafeWordBranch
    \/ HandleSafeWord
    \/ Tick

SpecSafeWord == SafeWordInit /\ [][SafeWordNext]_vars

\* the row apart from the end of the cooldown
ApartFromCooldown(s) == [s EXCEPT !.cancelled_until = Never]

\* C11: after a safe word is handled the session is in IDLE with empty
\* gathered_evidence, after the first call and after every later one, and
\* a call that follows another leaves the row as it was apart from the end
\* of the cooldown.
C11_SafeWordIdempotent ==
    /\ [](updates >= 1 =>
            db.conversation_state = "IDLE" /\ db.gathered_evidence = EmptyInfo)
    /\ [][(updates >= 1 /\ updates' = updates + 1) =>
            ApartFromCooldown(db') = ApartFromCooldown(db)]_vars

C11_Witness ==
    /\ updates = 2
    /\ db.conversation_state = "IDLE"
    /\ db.gathered_evidence = EmptyInfo
    /\ db.cancelled_until = TickSeconds + CooldownSeconds

(***************************************************************************)
(* normalize_location (partners/utils.py) over the tables of               *)
(* partners/constants.py (SpecLocation).  Texts are strings; the right     *)
(* single quotation mark (U+2019) of the source tables is written ´ here,  *)
(* the apostrophe (U+0027) is written '.                                   *)
(***************************************************************************)
AFRICAN_COUNTRIES ==
    <<"Algeria", "Egypt", "Libya", "Morocco", "Sudan", "Tunisia", "Benin",
      "Burkina Faso", "Cape Verde", "Côte d´Ivoire", "Gambia", "Ghana",
      "Guinea", "Guinea-Bissau", "Liberia", "Mali", "Mauritania", "Niger",
      "Nigeria", "Senegal", "Sierra Leone", "Togo", "Cameroon",
      "Central African Republic", "Chad", "Republic of the Congo",
      "Democratic Republic of the Congo", "Equatorial Guinea", "Gabon",
      "São Tomé and Príncipe", "Burundi", "Comoros", "Djibouti", "Eritrea",
      "Ethiopia", "Kenya", "Madagascar", "Malawi", "Mauritius", "Mozambique",
      "Rwanda", "Seychelles", "Somalia", "South Sudan", "Tanzania", "Uganda",
      "Zambia", "Zimbabwe", "Angola", "Botswana", "Eswatini", "Lesotho",
      "Namibia", "South Africa">>

COUNTRY_SYNONYMS ==
    <<<<"naija", "Nigeria">>, <<"drc", "Democratic Republic of the Congo">>,
      <<"dr congo", "Democratic Republic of the Congo">>,
      <<"democratic republic of congo", "Democratic Republic of the Congo">>,
      <<"congo-kinshasa", "Democratic Republic of the Congo">>,
      <<"congo brazzaville", "Republic of the Congo">>,
      <<"republic of congo", "Republic of the Congo">>,
      <<"ivory coast", "Côte d´Ivoire">>,
      <<"cote d'ivoire", "Côte d´Ivoire">>,
      <<"cote d´ivoire", "Côte d´Ivoire">>, <<"swaziland", "Eswatini">>,
      <<"cabo verde", "Cape Verde">>,
      <<"sao tome and principe", "São Tomé and Príncipe">>,
      <<"são tomé and príncipe", "São Tomé and Príncipe">>,
      <<"sao tome & principe", "São Tomé and Príncipe">>>>

CITY_TO_COUNTRY ==
    <<<<"lagos", "Nigeria">>, <<"abuja", "Nigeria">>,
      <<"port harcourt", "Nigeria">>, <<"ibadan", "Nigeria">>,
      <<"kano", "Nigeria">>, <<"enugu", "Nigeria">>,
      <<"benin city", "Nigeria">>, <<"kaduna", "Nigeria">>,
      <<"jos", "Nigeria">>, <<"ilaro", "Nigeria">>, <<"accra", "Ghana">>,
      <<"kumasi", "Ghana">>, <<"tamale", "Ghana">>, <<"takoradi", "Ghana">>,
      <<"nairobi", "Kenya">>, <<"mombasa", "Kenya">>, <<"kisumu", "Kenya">>,
      <<"nakuru", "Kenya">>, <<"johannesburg", "South Africa">>,
      <<"cape town", "South Africa">>, <<"durban", "South Africa">>,
      <<"pretoria", "South Africa">>>>

UpperLetters == "ABCDEFGHIJKLMNOPQRSTUVWXYZ"
LowerLetters == "abcdefghijklmnopqrstuvwxyz"

CharAt(s, i) == SubSeq(s, i, i)

\* str.lower, for one character
LowerChar(c) ==
    IF \E i \in 1..Len(UpperLetters) : CharAt(UpperLetters, i) = c
    THEN CharAt(LowerLetters, CHOOSE i \in 1..Len(UpperLetters) : CharAt(UpperLetters, i) = c)
    ELSE c

RECURSIVE StrLower(_)
StrLower(s) ==
    IF s = "" THEN "" ELSE LowerChar(CharAt(s, 1)) \o StrLower(SubSeq(s, 2, Len(s)))

RECURSIVE StripLeft(_)
StripLeft(s) ==
    IF s # "" /\ CharAt(s, 1) = " " THEN StripLeft(SubSeq(s, 2, Len(s))) ELSE s

RECURSIVE StripRight(_)
StripRight(s) ==
    IF s # "" /\ CharAt(s, Len(s)) = " " THEN StripRight(SubSeq(s, 1, Len(s) - 1)) ELSE s

\* str.strip
StrStrip(s) == StripRight(StripLeft(s))

\* str.replace("  ", " "): the occurrences are taken from the left, without overlap
RECURSIVE ReplaceDoubleSpace(_)
ReplaceDoubleSpace(s) ==
    IF Len(s) < 2 THEN s
    ELSE IF SubSeq(s, 1, 2) = "  " THEN " " \o ReplaceDoubleSpace(SubSeq(s, 3, Len(s)))
    ELSE CharAt(s, 1) \o ReplaceDoubleSpace(SubSeq(s, 2, Len(s)))

\* sub in s
Contains(sub, s) ==
    \E i \in 1..(Len(s) - Len(sub) + 1) : SubSeq(s, i, i + Len(sub) - 1) = sub

\* s.split(",")[-1]
LastSegment(s) ==
    LET commas == {i \in 1..Len(s) : CharAt(s, i) = ","}
    IN  IF commas = {} THEN s
        ELSE SubSeq(s, (CHOOSE i \in commas : \A j \in commas : j <= i) + 1, Len(s))

\* the least index of a sequence that satisfies a test, 0 when none does
FirstIndex(indexes) ==
    IF indexes = {} THEN 0 ELSE CHOOSE i \in indexes : \A j \in indexes : i <= j

\* COUNTRY_SYNONYMS.get(key, key)
SynonymGet(key) ==
    LET i == FirstIndex({k \in 1..Len(COUNTRY_SYNONYMS) : COUNTRY_SYNONYMS[k][1] = key})
    IN  IF i = 0 THEN key ELSE COUNTRY_SYNONYMS[i][2]

CountryAsTyped(candidate) ==
    IF \E k \in 1..Len(AFRICAN_COUNTRIES) : StrLower(AFRICAN_COUNTRIES[k]) = candidate
    THEN candidate ELSE NoneVal

\* for c in AFRICAN_COUNTRIES: if c.lower() == candidate: return c
CountryEqual(candidate) ==
    LET i == FirstIndex({k \in 1..Len(AFRICAN_COUNTRIES) :
                            StrLower(AFRICAN_COUNTRIES[k]) = candidate})
    IN  IF i = 0 THEN NoneVal ELSE AFRICAN_COUNTRIES[i]

\* for city, mapped_country in CITY_TO_COUNTRY.items(): if city in raw: return mapped_country
CityIn(raw) ==
    LET i == FirstIndex({k \in 1..Len(CITY_TO_COUNTRY) : Contains(CITY_TO_COUNTRY[k][1], raw)})
    IN  IF i = 0 THEN NoneVal ELSE CITY_TO_COUNTRY[i][2]

\* for c in AFRICAN_COUNTRIES: if c.lower() in raw: return c
CountryIn(raw) ==
    LET i == FirstIndex({k \in 1..Len(AFRICAN_COUNTRIES) :
                            Contains(StrLower(AFRICAN_COUNTRIES[k]), raw)})
    IN  IF i = 0 THEN NoneVal ELSE AFRICAN_COUNTRIES[i]

normalize_location(location_text) ==
    IF location_text = "" THEN "Unknown"
    ELSE LET raw == ReplaceDoubleSpace(StrLower(StrStrip(location_text)))
             \* 1: the synonym's value is compared as the table spells it
             by_comma == IF Contains(",", raw)
                         THEN CountryEqual(SynonymGet(StrStrip(LastSegment(raw))))
                         ELSE NoneVal
             by_city == CityIn(raw)
             by_whole == CountryEqual(StrLower(SynonymGet(raw)))
             by_substring == CountryIn(raw)
         IN  IF by_comma # NoneVal THEN by_comma
             ELSE IF by_city # NoneVal THEN by_city
             ELSE IF by_whole # NoneVal THEN by_whole
             ELSE IF by_substring # NoneVal THEN by_substring
             ELSE "Unknown"

SeqRange(q) == {q[i] : i \in 1..Len(q)}

\* the spellings of the supported countries, each with the country it
\* names: the canonical names, the synonyms, the known cities, the
\* canonical name typed with an apostrophe, and a place that is none
Spellings ==
    {<<c, c>> : c \in SeqRange(AFRICAN_COUNTRIES)}
        \cup SeqRange(COUNTRY_SYNONYMS)
        \cup SeqRange(CITY_TO_COUNTRY)
        \cup {<<"Côte d'Ivoire", "Côte d´Ivoire">>, <<"Mars", "Unknown">>}

\* what comes before the spelling in a message
Prefixes == {"", "Kinshasa, ", "Lagos, ", "I live in "}

\* the texts handed to normalize_location
LocationTexts ==
    {""} \cup {pre \o p[1] : pre \in Prefixes, p \in Spellings}
         \cup {pre \o StrLower(p[1]) : pre \in Prefixes, p \in Spellings}

LocationInit ==
    /\ de_call = NoCall
    /\ de_result = NoResult
    /\ llm_reply = NoReply
    /\ parsed = NotParsed
    /\ SessionInit
    /\ LibIdle("loc")
    /\ loc \in {[text |-> t, country |-> "<unset>", again |-> "<unset>"] : t \in LocationTexts}

NormalizeLocation ==
    /\ loc.country = "<unset>"
    /\ loc' = [loc EXCEPT !.country = normalize_location(loc.text)]
    /\ UNCHANGED <<engineVars, parseVars, sessionVars>>
    /\ LibFrame("loc")

\* PartnerOrganization.find_by_location normalises the location it is
\* given, which the Navigator has normalised already
NormalizeAgain ==
    /\ loc.country # "<unset>"
    /\ loc.again = "<unset>"
    /\ loc' = [loc EXCEPT !.again = normalize_location(loc.country)]
    /\ UNCHANGED <<engineVars, parseVars, sessionVars>>
    /\ LibFrame("loc")

LocationNext ==
    \/ NormalizeLocation
    \/ NormalizeAgain

SpecLocation == LocationInit /\ [][LocationNext]_vars

Normalized == loc.country # "<unset>"

\* C12: every spelling of a supported country (its canonical name, each of
\* its synonyms, each of its known cities, in the table's case or in lower
\* case) normalises to that country's canonical name, and a text naming no
\* supported place normalises to "Unknown".
C12_SpellingsNormaliseAlike ==
    Normalized =>
        \A p \in Spellings :
            loc.text \in {p[1], StrLower(p[1])} => loc.country = p[2]

\* the countries the ordered procedure allows for a text: those of the
\* first step that matches
ProcedureCountries(text) ==
    LET raw == ReplaceDoubleSpace(StrLower(StrStrip(text)))
        segment == StrLower(SynonymGet(StrStrip(LastSegment(raw))))
        step1 == IF Contains(",", raw)
                 THEN {c \in SeqRange(AFRICAN_COUNTRIES) : StrLower(c) = segment}
                 ELSE {}
        step2 == {p[2] : p \in {x \in SeqRange(CITY_TO_COUNTRY) : Contains(x[1], raw)}}
        step3 == {c \in SeqRange(AFRICAN_COUNTRIES) : StrLower(c) = StrLower(SynonymGet(raw))}
        step4 == {c \in SeqRange(AFRICAN_COUNTRIES) : Contains(StrLower(c), raw)}
    IN  IF step1 # {} THEN step1
        ELSE IF step2 # {} THEN step2
        ELSE IF step3 # {} THEN step3
        ELSE IF step4 # {} THEN step4
        ELSE {"Unknown"}

\* C13: normalize_location returns what the ordered procedure returns, the
\* first step that matches deciding: the segment after the last comma as a
\* synonym and then as a country name whatever its case, a known city in
\* the text, the whole text as a synonym or a country name, a country name
\* in the text, "Unknown".
C13_OrderedProcedure ==
    Normalized => loc.country \in ProcedureCountries(loc.text)

(***************************************************************************)
(* The custody of evidence (cases/models.py, intake/services.py,           *)
(* cases/admin.py) (SpecEvidence): one IncidentReport, created by one of   *)
(* the report processors, its EvidenceAsset rows, and the changes the      *)
(* admin site allows on the assets.  SHA-256 is taken as collision-free:   *)
(* the digest of a byte string is the string between angle brackets.  The  *)
(* texts are ASCII, so text.encode() holds the characters of the text.     *)
(***************************************************************************)
\* the asset rows a case is given in all (primary keys are not reused)
MaxAssets == 2

EvTexts == {"a", "b"}
EvFiles == {"a", "b"}

\* hashlib.sha256(data).hexdigest()
Sha256(data) == "<" \o data \o ">"

\* x or ''
OrEmpty(x) == IF x = NoneVal THEN "" ELSE x

\* an unsaved EvidenceAsset; first_digest and first_content record the
\* first digest the asset was given and what it was to be taken over
EvidenceAsset(id, file, derived_text) ==
    [id |-> id, file |-> file, derived_text |-> derived_text,
     sha256_digest |-> NoneVal, first_digest |-> NoneVal, first_content |-> NoneVal]

\* what the digest of an asset is taken over: the file, or the text without a file
DigestContent(a) == IF a.file # NoneVal THEN a.file ELSE a.derived_text

\* self.sha256_digest = d
WithDigest(a, d) ==
    [a EXCEPT !.sha256_digest = d,
              !.first_digest = IF @ = NoneVal THEN d ELSE @,
              !.first_content = IF a.first_digest = NoneVal THEN DigestContent(a) ELSE @]

generate_hash(a) ==
    IF a.file # NoneVal THEN WithDigest(a, Sha256(a.file))
    ELSE IF a.derived_text \notin {NoneVal, ""} THEN WithDigest(a, Sha256(a.derived_text))
    ELSE a

\* EvidenceAsset.save
RehashOnSave(a) == generate_hash(a)

save_asset(a) ==
    IF a.sha256_digest \in {NoneVal, ""} THEN generate_hash(a) ELSE a

RECURSIVE JoinDigests(_)
JoinDigests(assets) ==
    IF assets = <<>> THEN "" ELSE Head(assets).sha256_digest \o JoinDigests(Tail(assets))

\* IncidentReport.generate_chain_hash; "".join raises TypeError on a digest that is None
generate_chain_hash(c) ==
    IF \E i \in 1..Len(c.assets) : c.assets[i].sha256_digest = NoneVal
    THEN "TypeError"
    ELSE Sha256(c.case_id \o JoinDigests(c.assets) \o OrEmpty(c.original_text)
                \o OrEmpty(c.transcribed_text) \o OrEmpty(c.extracted_text) \o c.created_at)

IncidentReport(original_text) ==
    [created |-> TRUE, case_id |-> "case-1", created_at |-> "2026-01-01T00:00:00",
     original_text |-> original_text, transcribed_text |-> NoneVal,
     extracted_text |-> NoneVal, assets |-> <<>>, next_id |-> 1, chain_hash |-> NoneVal]

\* EvidenceAsset.objects.create(incident=c, ...) followed by what the caller does to the asset
AddAsset(c, a) == [c EXCEPT !.assets = Append(@, a), !.next_id = @ + 1]

\* the asset of an uploaded file: created empty, the file saved, the digest
\* of the uploaded bytes assigned
UploadedAsset(id, file) ==
    save_asset(WithDigest(save_asset([save_asset(EvidenceAsset(id, NoneVal, NoneVal))
                                         EXCEPT !.file = file]),
                          Sha256(file)))

\* process_text_report up to the chain hash
ProcessTextReport ==
    /\ ~ev.created
    /\ \E text \in EvTexts :
        LET asset == save_asset(WithDigest(save_asset(EvidenceAsset(1, NoneVal, text)),
                                           Sha256(text)))
            c == AddAsset(IncidentReport(text), asset)
        IN  ev' = [c EXCEPT !.chain_hash = generate_chain_hash(c)]
    /\ UNCHANGED <<engineVars, parseVars, sessionVars>>
    /\ LibFrame("ev")

\* process_image_report: the asset is stored, or the storage fails; the call
\* analyze_image(f, mime_type) raises, so nothing more is written
ProcessImageReport ==
    /\ ~ev.created
    /\ \E file \in EvFiles, caption \in EvTexts \cup {NoneVal}, stored \in BOOLEAN :
        ev' = AddAsset(IncidentReport(caption),
                       IF stored THEN UploadedAsset(1, file)
                       ELSE save_asset(EvidenceAsset(1, NoneVal, NoneVal)))
    /\ UNCHANGED <<engineVars, parseVars, sessionVars>>
    /\ LibFrame("ev")

\* process_audio_report: the asset, the transcription, the chain hash, then
\* the transcription attached to the asset
ProcessAudioReport ==
    /\ ~ev.created
    /\ \E file \in EvFiles, transcription \in EvTexts \cup {""} :
        LET asset == UploadedAsset(1, file)
            c == [AddAsset(IncidentReport(NoneVal), asset)
                     EXCEPT !.transcribed_text = transcription]
            hashed == [c EXCEPT !.chain_hash = generate_chain_hash(c)]
        IN  ev' = [hashed EXCEPT !.assets[1] =
                      save_asset([asset EXCEPT !.derived_text = transcription])]
    /\ UNCHANGED <<engineVars, parseVars, sessionVars>>
    /\ LibFrame("ev")

\* the admin site: an asset added to the case
AdminAddAsset ==
    /\ ev.created
    /\ ev.next_id <= MaxAssets
    /\ \E file \in EvFiles \cup {NoneVal}, text \in EvTexts \cup {NoneVal} :
        ev' = AddAsset(ev, save_asset(EvidenceAsset(ev.next_id, file, text)))
    /\ UNCHANGED <<engineVars, parseVars, sessionVars>>
    /\ LibFrame("ev")

\* the admin site: the file or the derived text of an asset changed (the
\* digest is a read-only field of the form)
AdminChangeAsset ==
    /\ ev.created
    /\ \E i \in 1..Len(ev.assets), file \in EvFiles \cup {NoneVal},
          text \in EvTexts \cup {NoneVal} :
        /\ <<file, text>> # <<ev.assets[i].file, ev.assets[i].derived_text>>
        /\ ev' = [ev EXCEPT !.assets[i] =
                     save_asset([@ EXCEPT !.file = file, !.derived_text = text])]
    /\ UNCHANGED <<engineVars, parseVars, sessionVars>>
    /\ LibFrame("ev")

\* the admin site: an asset deleted
AdminDeleteAsset ==
    /\ ev.created
    /\ \E i \in 1..Len(ev.assets) :
        ev' = [ev EXCEPT !.assets = SubSeq(@, 1, i - 1) \o SubSeq(@, i + 1, Len(@))]
    /\ UNCHANGED <<engineVars, parseVars, sessionVars>>
    /\ LibFrame("ev")

EvidenceInit ==
    /\ de_call = NoCall
    /\ de_result = NoResult
    /\ llm_reply = NoReply
    /\ parsed = NotParsed
    /\ SessionInit
    /\ LibIdle("ev")
    /\ ev = NoEv

EvidenceNext ==
    \/ ProcessTextReport
    \/ ProcessImageReport
    \/ ProcessAudioReport
    \/ AdminAddAsset
    \/ AdminChangeAsset
    \/ AdminDeleteAsset

SpecEvidence == EvidenceInit /\ [][EvidenceNext]_vars

\* the evidence items and the texts of a case
EvidenceOf(c) ==
    <<[i \in 1..Len(c.assets) |->
          <<c.assets[i].id, c.assets[i].file, c.assets[i].derived_text>>],
      OrEmpty(c.original_text), OrEmpty(c.transcribed_text), OrEmpty(c.extracted_text)>>

\* C14: a step that adds, removes or alters an evidence item of a case, or
\* changes its original, transcribed or extracted text, changes the chain
\* hash of the case (where the hash can be computed before and after).
C14_ChainHashFollowsEvidence ==
    [][(/\ ev.created
        /\ ev'.created
        /\ EvidenceOf(ev') # EvidenceOf(ev)
        /\ generate_chain_hash(ev) # "TypeError"
        /\ generate_chain_hash(ev') # "TypeError")
       => generate_chain_hash(ev') # generate_chain_hash(ev)]_vars

\* C15: a digest that is set is the first digest the asset was given, and
\* that digest was taken over the file's bytes or, without a file, over the
\* text: no later save changes it.
C15_DigestImmutable ==
    ev.created =>
        \A i \in 1..Len(ev.assets) :
            LET a == ev.assets[i]
            IN  a.sha256_digest # NoneVal =>
                    /\ a.sha256_digest = a.first_digest
                    /\ a.first_digest = Sha256(a.first_content)

\* an asset whose content was changed and saved after its digest was set
C15_Witness ==
    /\ ev.created
    /\ \E i \in 1..Len(ev.assets) :
        LET a == ev.assets[i]
        IN  /\ a.sha256_digest # NoneVal
            /\ DigestContent(a) # NoneVal
            /\ DigestContent(a) # a.first_content

(***************************************************************************)
(* The service clients (triage/clients) (SpecRetry): one call of           *)
(* GroqClient._make_request_with_retry ("text"), GroqClient.               *)
(* transcribe_audio ("speech") or GeminiClient.analyze_image_bytes         *)
(* ("vision"), one action per turn of its retry loop.  rq.history holds    *)
(* the outcome of every attempt made, rq.slept every delay slept.          *)
(***************************************************************************)
MAX_RETRIES == 3
RETRY_DELAY == 1

Clients == {"text", "speech", "vision"}

\* the way a request ends: a reply, requests.exceptions.Timeout, an HTTP
\* status that raise_for_status raises on (for the vision SDK: the API error
\* of that status), another RequestException, a reply that does not parse
HttpErrors == {"http_400", "http_401", "http_415", "http_429", "http_500"}
RetryableOutcomes == {"timeout", "http_429", "connection_error"}

\* the error type of a client
TypedError(client) == IF client = "vision" THEN "GeminiClientError" ELSE "GroqClientError"

\* time.sleep(...) after failed attempt number attempt + 1
FlatBackoff(client, outcome, attempt) == RETRY_DELAY * (attempt + 1)

Backoff(client, outcome, attempt) ==
    IF client # "vision" /\ outcome = "http_429"
    THEN RETRY_DELAY * (attempt + 1) * 2
    ELSE RETRY_DELAY * (attempt + 1)

\* the outcomes after which the loop of a client goes on
Retried(client) ==
    IF client = "vision" THEN (HttpErrors \cup RetryableOutcomes) ELSE RetryableOutcomes

NewCall(client, available) ==
    [status |-> "running", client |-> client, available |-> available,
     history |-> <<>>, slept |-> <<>>, error |-> NoneVal]

\* the guard before the loop: no API key
Unavailable ==
    /\ rq.status = "running"
    /\ ~rq.available
    /\ rq' = IF rq.client = "vision"
             THEN [rq EXCEPT !.status = "returned"]
             ELSE [rq EXCEPT !.status = "raised", !.error = TypedError(rq.client)]
    /\ UNCHANGED <<engineVars, parseVars, sessionVars>>
    /\ LibFrame("rq")

\* one turn of the loop whose request is answered
AttemptReturns ==
    /\ rq.status = "running"
    /\ rq.available
    /\ \E outcome \in {"ok", "bad_reply"} :
        /\ (outcome = "bad_reply" => rq.client = "vision")
        /\ rq' = IF outcome = "ok"
                 THEN [rq EXCEPT !.history = Append(@, outcome), !.status = "returned"]
                 ELSE [rq EXCEPT !.history = Append(@, outcome), !.status = "raised",
                                 !.error = TypedError(rq.client)]
    /\ UNCHANGED <<engineVars, parseVars, sessionVars>>
    /\ LibFrame("rq")

\* one turn of the loop whose request fails and is not tried again
AttemptRaises ==
    /\ rq.status = "running"
    /\ rq.available
    /\ \E outcome \in (HttpErrors \cup RetryableOutcomes) \ Retried(rq.client) :
        rq' = [rq EXCEPT !.history = Append(@, outcome), !.status = "raised",
                         !.error = TypedError(rq.client)]
    /\ UNCHANGED <<engineVars, parseVars, sessionVars>>
    /\ LibFrame("rq")

\* one turn of the loop whose request fails and the loop goes on: it sleeps
\* and tries again, or the turns are used up and the error after the loop
\* is raised
AttemptFails ==
    /\ rq.status = "running"
    /\ rq.available
    /\ \E outcome \in Retried(rq.client) :
        LET attempt == Len(rq.history)
        IN  rq' = IF attempt < MAX_RETRIES - 1
                  THEN [rq EXCEPT !.history = Append(@, outcome),
                                  !.slept = Append(@, Backoff(rq.client, outcome, attempt))]
                  ELSE [rq EXCEPT !.history = Append(@, outcome), !.status = "raised",
                                  !.error = TypedError(rq.client)]
    /\ UNCHANGED <<engineVars, parseVars, sessionVars>>
    /\ LibFrame("rq")

RetryInit ==
    /\ de_call = NoCall
    /\ de_result = NoResult
    /\ llm_reply = NoReply
    /\ parsed = NotParsed
    /\ SessionInit
    /\ LibIdle("rq")
    /\ rq \in {NewCall(client, available) : client \in Clients, available \in BOOLEAN}

RetryNext ==
    \/ Unavailable
    \/ AttemptReturns
    \/ AttemptRaises
    \/ AttemptFails

SpecRetry == RetryInit /\ [][RetryNext]_vars

\* C16: a call of the text or the speech client makes at most 3 attempts;
\* after failed attempt k < 3 (timeout or 429) it has slept base delay x k,
\* twice that for 429, once per failed attempt; when the third attempt
\* fails too, the call has ended with the client's typed error.
C16_AtMostThreeAttempts ==
    (rq.status # "none" /\ rq.client \in {"text", "speech"}) =>
        /\ Len(rq.history) <= 3
        /\ (rq.status = "running" => Len(rq.history) < 3)
        /\ Len(rq.slept) = Cardinality({k \in 1..Len(rq.history) :
                                             k < 3 /\ rq.history[k] \in RetryableOutcomes})
        /\ \A k \in 1..Len(rq.slept) :
            /\ rq.history[k] = "timeout" => rq.slept[k] = RETRY_DELAY * k
            /\ rq.history[k] = "http_429" => rq.slept[k] = 2 * (RETRY_DELAY * k)
        /\ (Len(rq.history) = 3 /\ rq.history[3] \in {"timeout", "http_429"}) =>
                (rq.status = "raised" /\ rq.error = "GroqClientError")

\* a call that timed out, was rate-limited, and failed a third time
C16_Witness ==
    /\ rq.status = "raised"
    /\ rq.client \in {"text", "speech"}
    /\ rq.history = <<"timeout", "http_429", "http_429">>
    /\ rq.slept = <<1, 4>>

\* C17: an HTTP error other than 429 (bad authentication 401, malformed
\* request 400, unsupported media 415, ...) ends the call of the text, the
\* speech and the vision client at once: no attempt follows it, and the
\* client's typed error is raised.
C17_TerminalFailureNotRetried ==
    rq.status # "none" =>
        \A k \in 1..Len(rq.history) :
            rq.history[k] \in HttpErrors \ {"http_429"} =>
                /\ k = Len(rq.history)
                /\ rq.status = "raised"
                /\ rq.error = TypedError(rq.client)

(***************************************************************************)
(* The analysis built from a model reply (SpecNormalize):                  *)
(* GroqClient.analyze_text from the parsed reply on, and GeminiClient.     *)
(* _validate_and_normalize followed by ImageAnalysis of the data.  A JSON      *)
(* value is a record: its type t, the number n (a float in tenths) and     *)
(* the string s.                                                           *)
(***************************************************************************)
JInt(n) == [t |-> "int", n |-> n, s |-> ""]
JFloat(tenths) == [t |-> "float", n |-> tenths, s |-> ""]
JStr(s) == [t |-> "str", n |-> 0, s |-> s]
JNull == [t |-> "null", n |-> 0, s |-> ""]
JMissing == [t |-> "missing", n |-> 0, s |-> ""]

UpperChar(c) ==
    IF \E i \in 1..Len(LowerLetters) : CharAt(LowerLetters, i) = c
    THEN CharAt(UpperLetters, CHOOSE i \in 1..Len(LowerLetters) : CharAt(LowerLetters, i) = c)
    ELSE c

RECURSIVE StrUpper(_)
StrUpper(s) ==
    IF s = "" THEN "" ELSE UpperChar(CharAt(s, 1)) \o StrUpper(SubSeq(s, 2, Len(s)))

Digits == "0123456789"
IsDigit(c) == \E i \in 1..Len(Digits) : CharAt(Digits, i) = c
DigitValue(c) == (CHOOSE i \in 1..Len(Digits) : CharAt(Digits, i) = c) - 1

RECURSIVE DigitsValue(_, _)
DigitsValue(s, acc) ==
    IF s = "" THEN acc
    ELSE DigitsValue(SubSeq(s, 2, Len(s)), acc * 10 + DigitValue(CharAt(s, 1)))

AllDigits(s) == s # "" /\ \A i \in 1..Len(s) : IsDigit(CharAt(s, i))

\* int(x): the number or the exception
PyInt(x) ==
    CASE x.t = "int" -> [ok |-> TRUE, n |-> x.n, error |-> ""]
      [] x.t = "float" ->
            [ok |-> TRUE, n |-> IF x.n < 0 THEN 0 - ((0 - x.n) \div 10) ELSE x.n \div 10,
             error |-> ""]
      [] x.t = "str" ->
            LET body == StrStrip(x.s)
                negative == body # "" /\ CharAt(body, 1) = "-"
                signed == body # "" /\ CharAt(body, 1) \in {"-", "+"}
                digits == IF signed THEN SubSeq(body, 2, Len(body)) ELSE body
            IN  IF AllDigits(digits)
                THEN [ok |-> TRUE,
                      n |-> IF negative THEN 0 - DigitsValue(digits, 0)
                            ELSE DigitsValue(digits, 0),
                      error |-> ""]
                ELSE [ok |-> FALSE, n |-> 0, error |-> "ValueError"]
      [] OTHER -> [ok |-> FALSE, n |-> 0, error |-> "TypeError"]

\* str(x)
PyStr(x) ==
    CASE x.t = "str" -> x.s
      [] x.t = "null" -> "None"
      [] x.t = "int" -> "<number>"
      [] OTHER -> "<number>"

PyMax(a, b) == IF a >= b THEN a ELSE b
PyMin(a, b) == IF a <= b THEN a ELSE b

ValidActions == {"ADVISE", "REPORT", "ASK_LOCATION"}

\* if key not in data: data[key] = default
SetDefault(x, default) == IF x.t = "missing" THEN default ELSE x

Raised(error) == [ok |-> FALSE, error |-> error, risk_score |-> 0, action |-> "", summary |-> ""]

\* ThreatAnalysis of the data, ImageAnalysis of the data: summary is a required str
BuildAnalysis(risk_score, action, summary, error) ==
    IF summary.t # "str" THEN Raised(error)
    ELSE [ok |-> TRUE, error |-> "", risk_score |-> risk_score, action |-> action,
          summary |-> summary.s]

\* x.upper(): a value that is not a str has no such method
GroqUpper(x) == IF x.t = "str" THEN [ok |-> TRUE, s |-> StrUpper(x.s)]
                ELSE [ok |-> FALSE, s |-> ""]

\* GroqClient.analyze_text, from the parsed reply on
analyze_text_normalize(data) ==
    LET score == PyInt(SetDefault(data.risk_score, JInt(5)))
        action == GroqUpper(SetDefault(data.action, JStr("ADVISE")))
    IN  IF ~score.ok \/ ~action.ok THEN Raised("GroqClientError")
        ELSE BuildAnalysis(PyMax(1, PyMin(10, score.n)),
                           IF action.s \in ValidActions THEN action.s ELSE "ADVISE",
                           SetDefault(data.summary, JStr("Content analyzed")),
                           "GroqClientError")

\* GeminiClient._validate_and_normalize and ImageAnalysis of the data; an
\* exception of the normaliser is caught as a failed attempt and ends, when
\* the reply stays the same, in the error after the loop
validate_and_normalize(data) ==
    LET score == PyInt(SetDefault(data.risk_score, JInt(5)))
        action == StrUpper(PyStr(SetDefault(data.action, JStr("ADVISE"))))
    IN  IF ~score.ok THEN Raised("GeminiClientError")
        ELSE BuildAnalysis(PyMax(1, PyMin(10, score.n)),
                           IF action \in ValidActions THEN action ELSE "ADVISE",
                           SetDefault(data.summary, JStr("Image analyzed")),
                           "GeminiClientError")

ReplyScores ==
    {JInt(n) : n \in {0 - 3, 0, 1, 7, 10, 11, 99}}
        \cup {JFloat(75), JFloat(0 - 5), JFloat(109), JStr("7"), JStr(" 15 "), JStr("-2"),
              JStr("high"), JStr("7.5"), JNull, JMissing}

ReplyActions ==
    {JStr(a) : a \in {"ADVISE", "REPORT", "ASK_LOCATION", "report", "Ask_Location",
                      "ASK_CONTEXT", "ESCALATE", ""}}
        \cup {JNull, JMissing, JInt(1)}

ReplySummaries == {JStr("a threat"), JMissing, JNull}

Replies ==
    [risk_score : ReplyScores, action : ReplyActions, summary : ReplySummaries]

\* the reply of the model is turned into the analysis, or the call fails
Normalize ==
    /\ an.status = "reply"
    /\ an' = [an EXCEPT !.status = "done",
                        !.result = IF an.client = "text"
                                   THEN analyze_text_normalize(an.reply)
                                   ELSE validate_and_normalize(an.reply)]
    /\ UNCHANGED <<engineVars, parseVars, sessionVars>>
    /\ LibFrame("an")

NormalizeInit ==
    /\ de_call = NoCall
    /\ de_result = NoResult
    /\ llm_reply = NoReply
    /\ parsed = NotParsed
    /\ SessionInit
    /\ LibIdle("an")
    /\ an \in {[status |-> "reply", client |-> client, reply |-> reply, result |-> Raised("")] :
                  client \in {"text", "vision"}, reply \in Replies}

NormalizeNext == Normalize

SpecNormalize == NormalizeInit /\ [][NormalizeNext]_vars

\* the score of a reply is a number
NumericScore(reply) == reply.risk_score.t \in {"int", "float", "missing"}

\* the action of a reply is one of the three, in any case of letters
RecognisedAction(reply) ==
    reply.action.t = "str" /\ StrUpper(reply.action.s) \in ValidActions

\* C18: an analysis that was built has its risk_score in 1..10 and its
\* action among ADVISE, REPORT, ASK_LOCATION; a reply with a number for a
\* score and a summary does not fail the call, whatever its action is, its
\* score is clamped into 1..10 and an action that is not recognised becomes
\* ADVISE.
C18_AnalysisNormalised ==
    an.status = "done" =>
        /\ an.result.ok =>
              /\ an.result.risk_score \in 1..10
              /\ an.result.action \in ValidActions
        /\ (NumericScore(an.reply) /\ an.reply.summary.t # "null") =>
              /\ an.result.ok
              /\ (an.reply.risk_score.t = "int" =>
                    an.result.risk_score =
                        IF an.reply.risk_score.n < 1 THEN 1
                        ELSE IF an.reply.risk_score.n > 10 THEN 10
                        ELSE an.reply.risk_score.n)
              /\ (~RecognisedAction(an.reply) => an.result.action = "ADVISE")

(***************************************************************************)
(* The agents (triage/agents) (SpecAgents): one ContextBundle and the      *)
(* process methods of the seven agents, each run on the bundle at most     *)
(* once, in the order of the pipeline.  The value of an artifact is a      *)
(* record: its kind ("absent" when the key is not in bundle.artifacts,     *)
(* "object" for a JSON object, "non_object" for another JSON value,        *)
(* "text" for a string), the keys an object holds and the values under     *)
(* them.  bundle.outcome records how the model call of each agent ended,   *)
(* bundle.writes the calls of add_artifact made for each key.              *)
(***************************************************************************)
Agents == {"sentinel", "linguist", "visionary", "navigator", "forensic", "messenger",
           "counselor"}

Absent ==
    [kind |-> "absent", keys |-> {}, is_safe |-> FALSE, risk_level |-> "", error |-> "",
     text |-> "", recommendation |-> "", urgency_rating |-> 0, country |-> "",
     risk_score |-> 0]

JObject(keys) == [Absent EXCEPT !.kind = "object", !.keys = keys]
NonObject == [Absent EXCEPT !.kind = "non_object"]
Text(t) == [Absent EXCEPT !.kind = "text", !.text = t]

\* the ways the model call of an agent and the parsing of its reply end:
\* call_llm raises, json.loads raises, the reply is a JSON value that is not
\* an object, the reply is an object
LlmFailures == {"call_failed", "bad_json"}
FailedOutcomes == LlmFailures \cup {"non_object"}

\* str(e)
ErrorText(outcome) ==
    CASE outcome = "call_failed" -> "LLM call failed"
      [] outcome = "bad_json" -> "Expecting value: line 1 column 1 (char 0)"
      [] OTHER -> "object has no attribute 'get'"

\* no TriageResult has been built
NoTriage ==
    [risk_score |-> 0, action |-> "", location |-> "", advice |-> "", error |-> ""]

ArtifactKeys ==
    {"safety_check", "translation", "vision_analysis", "location_analysis",
     "forensic_audit", "forensic_hash", "dispatch_draft", "agent_response"}

\* ContextBundle(user_message=..., metadata={"image_url": ...})
ContextBundle(user_message, image_url) ==
    [status |-> "open", user_message |-> user_message, image_url |-> image_url,
     artifacts |-> [k \in ArtifactKeys |-> Absent],
     writes |-> [k \in ArtifactKeys |-> 0],
     detected_dialect |-> NoneVal, workflow_state |-> "START",
     outcome |-> [a \in Agents |-> "not_run"], raised |-> NoneVal,
     mode |-> "agents", trace |-> <<>>, errors |-> {}, triage |-> NoTriage]

\* self.artifacts[key] = value
add_artifact(b, key, value) ==
    [b EXCEPT !.artifacts[key] = value, !.writes[key] = @ + 1]

\* the bookkeeping of a run of an agent
Ran(b, agent, outcome) ==
    [b EXCEPT !.outcome[agent] = outcome, !.trace = Append(@, agent)]

\* the order of the agents in a pipeline; an agent may be left out
Pipeline ==
    <<"sentinel", "linguist", "visionary", "navigator", "forensic", "messenger",
      "counselor">>

Position(agent) == CHOOSE i \in 1..Len(Pipeline) : Pipeline[i] = agent

IsNotVisionary(agent) == agent # "visionary"

\* process_incident: the stages of one execution, Visionary only with an image
Stages(b) ==
    IF b.image_url = NoneVal THEN SelectSeq(Pipeline, IsNotVisionary) ELSE Pipeline

\* process_incident: the agent is the stage to run next
NextStage(b, agent) ==
    /\ Len(b.trace) < Len(Stages(b))
    /\ Stages(b)[Len(b.trace) + 1] = agent

\* an agent called on its own runs after the agents called before it; within
\* process_incident it runs when the stages before it have returned
CanRun(agent) ==
    /\ bundle.status = "open"
    /\ bundle.raised = NoneVal
    /\ IF bundle.mode = "pipeline"
       THEN NextStage(bundle, agent)
       ELSE \A i \in Position(agent)..Len(Pipeline) :
                bundle.outcome[Pipeline[i]] = "not_run"

\* an exception leaves agent.process: called on its own it reaches the
\* caller; process_incident catches it, records it and goes on
StagePropagates(b, agent, exc) ==
    [Ran(b, agent, "raised") EXCEPT !.raised = exc]

StageRaised(b, agent, exc) ==
    IF b.mode = "pipeline"
    THEN [Ran(b, agent, "raised") EXCEPT !.errors = @ \cup {agent}]
    ELSE [Ran(b, agent, "raised") EXCEPT !.raised = exc]

\* the replies of the safety model that are objects
SafetyReplies ==
    {[JObject({"is_safe", "risk_level"}) EXCEPT !.is_safe = TRUE, !.risk_level = "low"],
     [JObject({"is_safe", "risk_level"}) EXCEPT !.is_safe = FALSE, !.risk_level = "high"],
     [JObject({"risk_level"}) EXCEPT !.risk_level = "critical"],
     [JObject({"is_safe", "risk_score"}) EXCEPT !.is_safe = FALSE, !.risk_score = 8]}

\* SentinelAgent.process, except branch
SentinelFailClosed(b, outcome) ==
    add_artifact(b, "safety_check",
                 [JObject({"error", "is_safe"}) EXCEPT !.error = ErrorText(outcome),
                                                        !.is_safe = FALSE])

SentinelExcept(b, outcome) ==
    add_artifact(b, "safety_check",
                 [JObject({"error", "is_safe"}) EXCEPT !.error = ErrorText(outcome),
                                                        !.is_safe = TRUE])

\* analysis.get("is_safe"), the key missing gives None
Truthy(analysis, key) == key \in analysis.keys /\ analysis.is_safe

SentinelProcess ==
    /\ CanRun("sentinel")
    /\ \/ \E analysis \in SafetyReplies :
            bundle' = Ran([add_artifact(bundle, "safety_check", analysis)
                              EXCEPT !.workflow_state =
                                  IF Truthy(analysis, "is_safe") THEN "SAFE"
                                  ELSE "THREAT_DETECTED"],
                          "sentinel", "object")
       \/ \E outcome \in LlmFailures :
            bundle' = Ran(SentinelExcept(bundle, outcome), "sentinel", outcome)
       \/ bundle' = Ran(SentinelExcept(add_artifact(bundle, "safety_check", NonObject),
                                       "non_object"),
                        "sentinel", "non_object")
    /\ UNCHANGED <<engineVars, parseVars, sessionVars>>
    /\ LibFrame("bundle")

\* LinguistAgent.process
LinguistProcess ==
    /\ CanRun("linguist")
    /\ \/ \E reply \in {"Swahili: I am being followed"} :
            bundle' = Ran([add_artifact(bundle, "translation", Text(reply))
                              EXCEPT !.detected_dialect =
                                  SubSeq(reply, 1, PyMin(100, Len(reply)))],
                          "linguist", "object")
       \/ bundle' = Ran(bundle, "linguist", "call_failed")
    /\ UNCHANGED <<engineVars, parseVars, sessionVars>>
    /\ LibFrame("bundle")

\* VisionaryAgent.process
VisionaryProcess ==
    /\ CanRun("visionary")
    /\ IF bundle.image_url = NoneVal
       THEN bundle' = Ran(add_artifact(bundle, "vision_analysis",
                                       [JObject({"error"}) EXCEPT
                                           !.error = "No image URL provided"]),
                          "visionary", "no_image")
       ELSE \/ \E extracted \in {"I know where you live"} :
                 bundle' = Ran([add_artifact(bundle, "vision_analysis",
                                             [JObject({"extracted_text"}) EXCEPT
                                                 !.text = extracted])
                                   EXCEPT !.user_message =
                                       @ \o "\n[Vision Summary]: " \o extracted],
                               "visionary", "object")
            \/ bundle' = Ran(add_artifact(bundle, "vision_analysis", NonObject),
                             "visionary", "non_object")
            \/ \E outcome \in LlmFailures :
                 bundle' = Ran(bundle, "visionary", outcome)
    /\ UNCHANGED <<engineVars, parseVars, sessionVars>>
    /\ LibFrame("bundle")

\* NavigatorAgent.process
NavigatorProcess ==
    /\ CanRun("navigator")
    /\ \/ \E location \in {"Lagos, Nigeria", "Mars"} :
            bundle' = Ran(add_artifact(bundle, "location_analysis",
                                       [JObject({"raw_location", "normalized_country",
                                                 "needs_ask"})
                                           EXCEPT !.text = location,
                                                  !.country = normalize_location(location)]),
                          "navigator", "object")
       \/ \E outcome \in FailedOutcomes :
            bundle' = Ran(bundle, "navigator", outcome)
    /\ UNCHANGED <<engineVars, parseVars, sessionVars>>
    /\ LibFrame("bundle")

\* the text of a small number
IntText(n) == IF n >= 10 THEN "1" \o CharAt(Digits, n - 9) ELSE CharAt(Digits, n + 1)

\* json.dumps of the value of an artifact
DumpValue(v) ==
    CASE v.kind = "text" -> "\"" \o v.text \o "\""
      [] v.kind = "non_object" -> "[]"
      [] OTHER ->
            "{" \o (IF "is_safe" \in v.keys
                    THEN "is_safe:" \o (IF v.is_safe THEN "true" ELSE "false") \o "," ELSE "")
                \o (IF v.risk_level # "" THEN "risk_level:" \o v.risk_level \o "," ELSE "")
                \o (IF v.error # "" THEN "error:" \o v.error \o "," ELSE "")
                \o (IF v.text # "" THEN "text:" \o v.text \o "," ELSE "")
                \o (IF v.country # "" THEN "country:" \o v.country \o "," ELSE "")
                \o (IF v.recommendation # ""
                    THEN "recommendation:" \o v.recommendation \o "," ELSE "")
                \o (IF v.urgency_rating # 0
                    THEN "urgency_rating:" \o IntText(v.urgency_rating) \o "," ELSE "")
                \o (IF v.risk_score # 0
                    THEN "risk_score:" \o IntText(v.risk_score) ELSE "")
                \o "}"

DumpKey(artifacts, key) ==
    IF artifacts[key].kind = "absent" THEN ""
    ELSE key \o ":" \o DumpValue(artifacts[key]) \o ","

\* json.dumps(bundle.artifacts)
DumpArtifacts(artifacts) ==
    "{" \o DumpKey(artifacts, "safety_check") \o DumpKey(artifacts, "translation")
        \o DumpKey(artifacts, "vision_analysis") \o DumpKey(artifacts, "location_analysis")
        \o DumpKey(artifacts, "forensic_audit") \o DumpKey(artifacts, "forensic_hash")
        \o DumpKey(artifacts, "dispatch_draft") \o DumpKey(artifacts, "agent_response")
        \o "}"

AuditReplies ==
    {[JObject({"urgency_rating", "recommendation"}) EXCEPT
         !.urgency_rating = 9, !.recommendation = "escalate"],
     [JObject({"urgency_rating", "recommendation"}) EXCEPT
         !.urgency_rating = 3, !.recommendation = "advice"]}

\* ForensicAgent.process, except branch: the error is logged
ForensicHashAnyway(b) ==
    add_artifact(b, "forensic_hash",
                 Text(Sha256(b.user_message \o DumpArtifacts(b.artifacts))))

ForensicExcept(b) == b

\* ForensicAgent.process
ForensicProcess ==
    /\ CanRun("forensic")
    /\ LET artifacts_json == DumpArtifacts(bundle.artifacts)
           forensic_hash == Text(Sha256(bundle.user_message \o artifacts_json))
       IN  \/ \E audit \in AuditReplies :
                bundle' = Ran(add_artifact(add_artifact(bundle, "forensic_audit", audit),
                                           "forensic_hash", forensic_hash),
                              "forensic", "object")
           \/ bundle' = Ran(add_artifact(add_artifact(bundle, "forensic_audit", NonObject),
                                         "forensic_hash", forensic_hash),
                            "forensic", "non_object")
           \/ \E outcome \in LlmFailures :
                bundle' = Ran(ForensicExcept(bundle), "forensic", outcome)
    /\ UNCHANGED <<engineVars, parseVars, sessionVars>>
    /\ LibFrame("bundle")

\* MessengerAgent.process; forensic.get of an audit that is no object raises
\* outside the try
MessengerProcess ==
    /\ CanRun("messenger")
    /\ LET forensic == bundle.artifacts["forensic_audit"]
       IN  IF forensic.kind = "non_object"
           THEN bundle' = StageRaised(bundle, "messenger", "AttributeError")
           ELSE IF forensic.recommendation # "escalate"
           THEN bundle' = Ran(bundle, "messenger", "skipped")
           ELSE \/ bundle' = Ran(add_artifact(bundle, "dispatch_draft", Text("Dear partner")),
                                 "messenger", "object")
                \/ bundle' = Ran(bundle, "messenger", "call_failed")
    /\ UNCHANGED <<engineVars, parseVars, sessionVars>>
    /\ LibFrame("bundle")

FallbackResponse ==
    "I'm here for you. Please tell me more about what's happening so I can help."

\* CounselorAgent.process
CounselorProcess ==
    /\ CanRun("counselor")
    /\ \/ \E reply \in {"You are not alone.", ""} :
            bundle' = Ran([add_artifact(bundle, "agent_response", Text(reply))
                              EXCEPT !.workflow_state = "READY_TO_REPLY"],
                          "counselor", "object")
       \/ bundle' = Ran(add_artifact(bundle, "agent_response", Text(FallbackResponse)),
                        "counselor", "call_failed")
    /\ UNCHANGED <<engineVars, parseVars, sessionVars>>
    /\ LibFrame("bundle")

\* DecisionEngine._get_fallback_result
FallbackResult ==
    [risk_score |-> 5, action |-> "ADVISE", location |-> "Unknown",
     advice |-> "If you feel threatened, please contact local emergency services directly. You can also try submitting again.",
     error |-> "error"]

\* process_incident, the safety override
KeepAction(risk_score, action, location) == action

ForceAskLocation(risk_score, action, location) ==
    IF risk_score >= 7 /\ location \in {"", "Unknown", NoneVal}
    THEN "ASK_LOCATION" ELSE action

\* process_incident, the final bundle as a TriageResult; .get of an audit
\* that is no object raises and the fixed result is returned
MapBundle(b) ==
    LET safety == b.artifacts["safety_check"]
        location_analysis == b.artifacts["location_analysis"]
        forensic == b.artifacts["forensic_audit"]
        agent_response == b.artifacts["agent_response"]
        risk_score == IF "urgency_rating" \in forensic.keys THEN forensic.urgency_rating
                      ELSE IF "risk_score" \in safety.keys THEN safety.risk_score
                      ELSE 5
        action == IF "recommendation" \in forensic.keys
                  THEN StrUpper(forensic.recommendation) ELSE "ADVISE"
        location == IF "normalized_country" \in location_analysis.keys
                    THEN location_analysis.country ELSE "Unknown"
    IN  IF forensic.kind = "non_object" \/ b.raised # NoneVal THEN FallbackResult
        ELSE [risk_score |-> risk_score,
              action |-> ForceAskLocation(risk_score, action, location),
              location |-> location,
              advice |-> IF agent_response.kind = "text" THEN agent_response.text
                         ELSE NoneVal,
              error |-> NoneVal]

\* process_incident returns
ProcessIncidentReturn ==
    /\ bundle.status = "open"
    /\ bundle.mode = "pipeline"
    /\ Len(bundle.trace) = Len(Stages(bundle)) \/ bundle.raised # NoneVal
    /\ bundle' = [bundle EXCEPT !.status = "returned", !.triage = MapBundle(bundle)]
    /\ UNCHANGED <<engineVars, parseVars, sessionVars>>
    /\ LibFrame("bundle")

InitialMessage == "I am being followed"

AgentsInit ==
    /\ de_call = NoCall
    /\ de_result = NoResult
    /\ llm_reply = NoReply
    /\ parsed = NotParsed
    /\ SessionInit
    /\ LibIdle("bundle")
    /\ bundle \in {ContextBundle(InitialMessage, image_url) :
                      image_url \in {NoneVal, "https://img/1.png"}}

AgentsNext ==
    \/ SentinelProcess
    \/ LinguistProcess
    \/ VisionaryProcess
    \/ NavigatorProcess
    \/ ForensicProcess
    \/ MessengerProcess
    \/ CounselorProcess

SpecAgents == AgentsInit /\ [][AgentsNext]_vars

\* process_incident(text, metadata): a fresh bundle goes through the stages
PipelineInit ==
    /\ de_call = NoCall
    /\ de_result = NoResult
    /\ llm_reply = NoReply
    /\ parsed = NotParsed
    /\ SessionInit
    /\ LibIdle("bundle")
    /\ bundle \in {[ContextBundle(InitialMessage, image_url) EXCEPT !.mode = "pipeline"] :
                      image_url \in {NoneVal, "https://img/1.png"}}

PipelineNext ==
    \/ SentinelProcess
    \/ LinguistProcess
    \/ VisionaryProcess
    \/ NavigatorProcess
    \/ ForensicProcess
    \/ MessengerProcess
    \/ CounselorProcess
    \/ ProcessIncidentReturn

SpecPipeline == PipelineInit /\ [][PipelineNext]_vars

\* the keys of an artifact that state a verdict on the message
VerdictKeys == {"is_safe", "risk_level", "urgency_rating", "recommendation"}

\* the step is a run of the agent that ended in a failure of the agent
FailedRun(agent) ==
    /\ bundle.outcome[agent] = "not_run"
    /\ bundle'.outcome[agent] \in FailedOutcomes \cup {"raised"}

C20_FailedVisionRecorded ==
    (/\ bundle.status = "open"
     /\ bundle.image_url # NoneVal
     /\ bundle.outcome["visionary"] \in FailedOutcomes)
    => /\ bundle.artifacts["vision_analysis"].kind = "object"
       /\ "error" \in bundle.artifacts["vision_analysis"].keys
       /\ bundle.user_message = InitialMessage
       /\ bundle.outcome["visionary"] # "raised"

\* C21: a forensic_hash artifact is in the bundle only after a run of the
\* Forensic agent that did not fail; after a run whose model call or parsing
\* failed the bundle holds neither forensic_audit nor forensic_hash, also
\* after the later agents have run.
C21_HashOnlyFromForensicSuccess ==
    bundle.status = "open" =>
        /\ bundle.outcome["forensic"] \in LlmFailures =>
              /\ bundle.artifacts["forensic_audit"].kind = "absent"
              /\ bundle.artifacts["forensic_hash"].kind = "absent"
        /\ bundle.artifacts["forensic_hash"].kind # "absent" =>
              bundle.outcome["forensic"] \in {"object", "non_object"}

\* the Forensic agent failed and the Counselor has run after it
C21_Witness ==
    /\ bundle.status = "open"
    /\ bundle.outcome["forensic"] = "bad_json"
    /\ bundle.outcome["counselor"] # "not_run"
    /\ bundle.artifacts["forensic_hash"].kind = "absent"

\* C22: after a run of the Counselor the bundle holds an agent_response
\* that is a text and not blank; it is the fixed fallback text when the
\* model call failed.
C22_CounselorNeverBlank ==
    (bundle.status = "open" /\ bundle.outcome["counselor"] # "not_run") =>
        /\ bundle.artifacts["agent_response"].kind = "text"
        /\ StrStrip(bundle.artifacts["agent_response"].text) # ""
        /\ bundle.outcome["counselor"] = "call_failed" =>
              bundle.artifacts["agent_response"].text = FallbackResponse

\* C23: an artifact that is in the bundle stays as it is in every later
\* step, and add_artifact is called at most once for a key.
C23_ArtifactsOnlyAdded ==
    /\ [](bundle.status = "open" => \A key \in ArtifactKeys : bundle.writes[key] <= 1)
    /\ [][bundle.status = "open" =>
            \A key \in ArtifactKeys :
                bundle.artifacts[key].kind # "absent" =>
                    bundle'.artifacts[key] = bundle.artifacts[key]]_vars

\* the order of the stages of an execution over the bundle
ExpectedOrder ==
    IF bundle.image_url = NoneVal
    THEN <<"sentinel", "linguist", "navigator", "forensic", "messenger", "counselor">>
    ELSE <<"sentinel", "linguist", "visionary", "navigator", "forensic", "messenger",
           "counselor">>

\* C24: the stages an execution of process_incident has run so far are the
\* first stages of the fixed order (Visionary only with an image), each once,
\* and an execution returns only after all of them have run, whether or not
\* one of them failed.
C24_StagesInFixedOrder ==
    bundle.mode = "pipeline" =>
        /\ Len(bundle.trace) <= Len(ExpectedOrder)
        /\ bundle.trace = SubSeq(ExpectedOrder, 1, Len(bundle.trace))
        /\ bundle.status = "returned" => bundle.trace = ExpectedOrder

\* an execution has returned in which Messenger raised and Forensic failed
C24_Witness ==
    /\ bundle.mode = "pipeline"
    /\ bundle.status = "returned"
    /\ \E agent \in Agents : bundle.outcome[agent] = "raised"
    /\ bundle.outcome["navigator"] \in LlmFailures
    /\ bundle.outcome["counselor"] # "not_run"

\* what the claim expects of the result, from the artifacts of the bundle
ExpectedRisk ==
    IF bundle.artifacts["forensic_audit"].kind = "object"
    THEN bundle.artifacts["forensic_audit"].urgency_rating
    ELSE bundle.artifacts["safety_check"].risk_score

ExpectedRecommendation ==
    IF bundle.artifacts["forensic_audit"].kind = "object"
    THEN StrUpper(bundle.artifacts["forensic_audit"].recommendation)
    ELSE "ADVISE"

ExpectedLocation ==
    IF bundle.artifacts["location_analysis"].kind = "object"
    THEN bundle.artifacts["location_analysis"].country
    ELSE "Unknown"

\* the artifacts hold a risk score for the result
RiskKnown ==
    \/ bundle.artifacts["forensic_audit"].kind = "object"
    \/ "risk_score" \in bundle.artifacts["safety_check"].keys

EmptyingStep ==
    /\ db'.gathered_evidence = EmptyInfo
    /\ \E w \in Workers :
          \/ pc[w] = "safe_word"
          \/ pc[w] = "report_created"
          \/ pc[w] = "text_replied" /\ AfterReplyBranch(response[w]) = "low_risk"

\* the stored value of the key after the step is the one before it, or the
\* one the turn that saves the session has returned
KeptOrReturned(k) ==
    \/ db'.gathered_evidence[k] = db.gathered_evidence[k]
    \/ \E w \in Workers :
          /\ pc[w] = "text_llm"
          /\ response[w].gathered_info[k] # EmptyInfo[k]
          /\ db'.gathered_evidence[k] = response[w].gathered_info[k]

\* C26: in every step every key of the stored gathered_evidence that has a
\* value keeps it, or takes the value the turn being saved returned for it;
\* only a safe word, a low-risk close or a created report empties the mapping.
C26_EvidenceMergedNotReplaced ==
    [][EmptyingStep \/
       \A k \in DOMAIN EmptyInfo :
           db.gathered_evidence[k] # EmptyInfo[k] => KeptOrReturned(k)]_vars

(***************************************************************************)
(* PartnerOrganization.find_by_location (partners/models.py) over the      *)
(* partner rows and the cache, with the admin changing the rows            *)
(***************************************************************************)
\* the rows, in the order of their names
PartnerIds == {1, 2}
NoPartner == 0

Jurisdictions == {"Nigeria", "nigeria", "Kenya"}

LookupTexts == {"Lagos, Nigeria", "nairobi", "Mars", ""}

LookupCountry == [t \in LookupTexts |-> normalize_location(t)]

\* str.replace(" ", "_")
RECURSIVE ReplaceSpaces(_)
ReplaceSpaces(s) ==
    IF s = "" THEN ""
    ELSE (IF CharAt(s, 1) = " " THEN "_" ELSE CharAt(s, 1))
             \o ReplaceSpaces(SubSeq(s, 2, Len(s)))

cache_key(country) == "partner_org_" \o ReplaceSpaces(StrLower(country))

CacheKeys == {cache_key(LookupCountry[t]) : t \in LookupTexts}

\* filter(is_active=True, is_verified=True, jurisdiction__iexact=country)
\*     .order_by('name').first()
FirstPartner(rows, country) ==
    LET found == {p \in PartnerIds :
                     /\ rows[p].is_active
                     /\ rows[p].is_verified
                     /\ StrLower(rows[p].jurisdiction) = StrLower(country)}
    IN  IF found = {} THEN NoPartner
        ELSE CHOOSE p \in found : \A q \in found : p <= q

\* the lookup last made: the location, the partner returned, and a mark
\* that tells a lookup from the one before it
Lookup(location, partner) ==
    [location |-> location, partner |-> partner, mark |-> 1 - pa.last.mark]

FindByLocation ==
    /\ pa.status = "open"
    /\ \E location \in LookupTexts :
          LET country == LookupCountry[location]
              cached == pa.cache[cache_key(country)]
              partner == FirstPartner(pa.rows, country)
          IN  IF country = "Unknown"
              THEN pa' = [pa EXCEPT !.last = Lookup(location, NoPartner)]
              ELSE IF cached # NoPartner
              THEN pa' = [pa EXCEPT !.last = Lookup(location, cached)]
              ELSE pa' = [pa EXCEPT !.cache[cache_key(country)] = partner,
                                    !.last = Lookup(location, partner)]
    /\ UNCHANGED <<engineVars, parseVars, sessionVars>>
    /\ LibFrame("pa")

\* the 300 seconds of a cache entry have passed
CacheTimeout ==
    /\ pa.status = "open"
    /\ \E key \in CacheKeys :
          /\ pa.cache[key] # NoPartner
          /\ pa' = [pa EXCEPT !.cache[key] = NoPartner]
    /\ UNCHANGED <<engineVars, parseVars, sessionVars>>
    /\ LibFrame("pa")

\* the admin saves a partner: deactivated, unverified, moved, or the reverse
AdminSavePartner ==
    /\ pa.status = "open"
    /\ \E p \in PartnerIds, is_active \in BOOLEAN, is_verified \in BOOLEAN,
          jurisdiction \in Jurisdictions :
          pa' = [pa EXCEPT !.rows[p] = [is_active |-> is_active,
                                        is_verified |-> is_verified,
                                        jurisdiction |-> jurisdiction]]
    /\ UNCHANGED <<engineVars, parseVars, sessionVars>>
    /\ LibFrame("pa")

PartnersInit ==
    /\ de_call = NoCall
    /\ de_result = NoResult
    /\ llm_reply = NoReply
    /\ parsed = NotParsed
    /\ SessionInit
    /\ LibIdle("pa")
    /\ pa = [status |-> "open",
             rows |-> [p \in PartnerIds |->
                          [is_active |-> TRUE, is_verified |-> TRUE,
                           jurisdiction |-> IF p = 1 THEN "nigeria" ELSE "Kenya"]],
             cache |-> [key \in CacheKeys |-> NoPartner],
             last |-> [location |-> "", partner |-> NoPartner, mark |-> 0]]

PartnersNext ==
    \/ FindByLocation
    \/ CacheTimeout
    \/ AdminSavePartner

SpecPartners == PartnersInit /\ [][PartnersNext]_vars

\* C27: a partner returned by a call of find_by_location is, in the rows as
\* they are at the call, active and verified and of the jurisdiction the
\* location normalises to, whatever was changed since earlier lookups; no
\* partner is returned for a location that normalises to "Unknown".
C27_PartnerLiveAtCall ==
    [][(pa.status = "open" /\ pa'.last # pa.last /\ pa'.last.partner # NoPartner) =>
          LET row == pa.rows[pa'.last.partner]
              country == LookupCountry[pa'.last.location]
          IN  /\ country # "Unknown"
              /\ row.is_active
              /\ row.is_verified
              /\ StrLower(row.jurisdiction) = StrLower(country)]_vars

\* the dispatch logs created while a report was processed
ReportDispatches == {d \in dispatches : d.via # "location"}

MaxReports == 2

Platforms == {"telegram", "messenger", "instagram"}

\* what the user types when asked for a location
LocationReplies == {"Lagos, Nigeria", "Mars"}

\* the reply last handled while a location was awaited: the text and
\* whether the dispatcher would reach a partner for it
NoLocationReply == [text |-> NoneVal, dispatch |-> "none"]

\* handle_text / _handle_text_message from process_message on: the merge,
\* then _create_and_send_report and send_result
TextTurn(l, r, outcome, dispatch) ==
    LET merged == [l.session EXCEPT
                      !.conversation_state = r.state,
                      !.gathered_evidence =
                          IF r.gathered_info # EmptyInfo
                          THEN MergeEvidence(@, r.gathered_info) ELSE @]
        case_id == Len(l.cases) + 1
        report == ReportAfterAnalysis(analyze_text(outcome), dispatch, case_id)
    IN  CASE AfterReplyBranch(r) = "report"
                 /\ CreateReportMissing(r.gathered_info, merged) # <<>> ->
                [l EXCEPT !.session = [merged EXCEPT !.conversation_state = "GATHERING"]]
          [] AfterReplyBranch(r) = "report"
                 /\ CreateReportMissing(r.gathered_info, merged) = <<>> ->
                [l EXCEPT
                    !.cases = Append(@, [action |-> report.action]),
                    !.dispatched = IF report.dispatched THEN @ \cup {case_id} ELSE @,
                    !.session =
                        IF report.action = "ask_location"
                        THEN [reset_conversation(merged) EXCEPT
                                 !.pending_report_data = case_id,
                                 !.awaiting_location = TRUE,
                                 !.conversation_state = "ASKING_LOCATION"]
                        ELSE reset_conversation(merged)]
          [] AfterReplyBranch(r) = "low_risk" ->
                [l EXCEPT !.session = [merged EXCEPT !.conversation_state = "IDLE",
                                                     !.gathered_evidence = EmptyInfo]]
          [] OTHER -> [l EXCEPT !.session = merged]

\* TelegramProcessor.process_update, a text while no location is awaited
TelegramHandleText ==
    /\ lr.status = "open"
    /\ lr.platform = "telegram"
    /\ ~lr.session.awaiting_location
    /\ Len(lr.cases) < MaxReports
    /\ \E r \in TurnResponses, outcome \in ReportOutcomes, dispatch \in DispatchOutcomes :
          lr' = [TextTurn(lr, r, outcome, dispatch) EXCEPT !.reply = NoLocationReply]
    /\ UNCHANGED <<engineVars, parseVars, sessionVars>>
    /\ LibFrame("lr")

\* update_location_and_dispatch
update_location_and_dispatch(l, case_id, dispatch) ==
    [l EXCEPT !.cases[case_id].action = "report",
              !.dispatched = IF dispatch = "sent" THEN @ \cup {case_id} ELSE @]

\* TelegramProcessor.handle_location_response
TelegramHandleLocationResponse ==
    /\ lr.status = "open"
    /\ lr.platform = "telegram"
    /\ lr.session.awaiting_location
    /\ \E text \in LocationReplies, dispatch \in DispatchOutcomes :
          LET pending == lr.session.pending_report_data
              saved == [lr EXCEPT !.session.last_detected_location = text,
                                  !.session.awaiting_location = FALSE,
                                  !.session.pending_report_data = NoCase,
                                  !.session.conversation_state = "IDLE",
                                  !.reply = [text |-> text, dispatch |-> dispatch]]
          IN  lr' = IF pending # NoCase
                    THEN update_location_and_dispatch(saved, pending, dispatch)
                    ELSE saved
    /\ UNCHANGED <<engineVars, parseVars, sessionVars>>
    /\ LibFrame("lr")

\* MetaProcessor._handle_text_message
MetaHandleTextMessage ==
    /\ lr.status = "open"
    /\ lr.platform # "telegram"
    /\ lr.session.awaiting_location \/ Len(lr.cases) < MaxReports
    /\ \E text \in LocationReplies, dispatch \in DispatchOutcomes,
          r \in TurnResponses, outcome \in ReportOutcomes,
          turn_dispatch \in DispatchOutcomes :
          LET saved == IF lr.session.awaiting_location
                       THEN [lr EXCEPT !.session.last_detected_location = text,
                                       !.session.awaiting_location = FALSE,
                                       !.reply = [text |-> text, dispatch |-> dispatch]]
                       ELSE [lr EXCEPT !.reply = NoLocationReply]
          IN  /\ AfterReplyBranch(r) = "report" => Len(lr.cases) < MaxReports
              /\ lr' = TextTurn(saved, r, outcome, turn_dispatch)
    /\ UNCHANGED <<engineVars, parseVars, sessionVars>>
    /\ LibFrame("lr")

AskLocationInit ==
    /\ de_call = NoCall
    /\ de_result = NoResult
    /\ llm_reply = NoReply
    /\ parsed = NotParsed
    /\ SessionInit
    /\ LibIdle("lr")
    /\ lr \in {[status |-> "open", platform |-> platform, session |-> InitialSession,
                cases |-> <<>>, dispatched |-> {}, reply |-> NoLocationReply] :
                  platform \in Platforms}

AskLocationNext ==
    \/ TelegramHandleText
    \/ TelegramHandleLocationResponse
    \/ MetaHandleTextMessage

SpecAskLocation == AskLocationInit /\ [][AskLocationNext]_vars

\* C29: a text handled while the session awaits a location with a pending
\* case is taken as the location, the pending case is dispatched when the
\* dispatcher reaches a partner for it, and the session no longer awaits the
\* location of that case; on Telegram and on the Meta platforms.
C29_LocationReplyDispatchesPending ==
    [][(lr.status = "open" /\ lr.session.awaiting_location
           /\ lr.session.pending_report_data # NoCase) =>
          LET pending == lr.session.pending_report_data
          IN  /\ lr'.reply.text \in LocationReplies
              /\ lr'.reply.dispatch = "sent" => pending \in lr'.dispatched
              /\ \/ ~lr'.session.awaiting_location
                 \/ lr'.session.pending_report_data # pending]_vars

(***************************************************************************)
(* The dispatch log of a partner dispatch and its email task               *)
(* (intake/services.py _dispatch_to_partner, dispatch/tasks.py)            *)
(***************************************************************************)
MaxLogs == 2

LogIds == 1..MaxLogs

\* no DispatchLog row of that id
NoLog == [status |-> "none", task |-> "none", outcome |-> "none"]

\* how the call of the mail service within the task ends: no API key, a
\* status 200, 201 or 202 with a JSON body, such a status with a body that
\* response.json() cannot read, another status, an exception of requests.post
TaskOutcomes == {"missing_key", "accepted", "accepted_unreadable", "error_status", "exception"}

Accepted == {"accepted", "accepted_unreadable"}

\* _update_dispatch_log: the update of the row; an exception of the update
\* is logged and the row left as it is
update_dispatch_log(logs, id, status, updated) ==
    IF updated THEN [logs EXCEPT ![id].status = status] ELSE logs

\* _dispatch_to_partner: DispatchLog.objects.create(..., status='pending')
CreateDispatchLog ==
    /\ dl.status = "open"
    /\ \A id \in LogIds : dl.logs[id].status # "none" => dl.logs[id].task # "none"
    /\ \E id \in LogIds :
          /\ dl.logs[id].status = "none"
          /\ \A other \in LogIds : other < id => dl.logs[other].status # "none"
          /\ dl' = [dl EXCEPT !.logs[id].status = "pending"]
    /\ UNCHANGED <<engineVars, parseVars, sessionVars>>
    /\ LibFrame("dl")

\* _dispatch_to_partner: brevo_dispatcher.send_async enqueues send_email_task
SendAsync ==
    /\ dl.status = "open"
    /\ \E id \in LogIds :
          /\ dl.logs[id].status # "none"
          /\ dl.logs[id].task = "none"
          /\ dl' = [dl EXCEPT !.logs[id].task = "enqueued"]
    /\ UNCHANGED <<engineVars, parseVars, sessionVars>>
    /\ LibFrame("dl")

\* send_email_task(payload, dispatch_log_id, incident_id), run by the worker
SendEmailTask ==
    /\ dl.status = "open"
    /\ \E id \in LogIds, outcome \in TaskOutcomes, updated \in BOOLEAN :
          /\ dl.logs[id].task = "enqueued"
          /\ dl' = [dl EXCEPT
                       !.logs = [update_dispatch_log(dl.logs, id,
                                      IF outcome = "accepted" THEN "sent" ELSE "failed",
                                      updated)
                                    EXCEPT ![id].task = "ran", ![id].outcome = outcome]]
    /\ UNCHANGED <<engineVars, parseVars, sessionVars>>
    /\ LibFrame("dl")

DispatchLogInit ==
    /\ de_call = NoCall
    /\ de_result = NoResult
    /\ llm_reply = NoReply
    /\ parsed = NotParsed
    /\ SessionInit
    /\ LibIdle("dl")
    /\ dl = [status |-> "open", logs |-> [id \in LogIds |-> NoLog]]

DispatchLogNext ==
    \/ CreateDispatchLog
    \/ SendAsync
    \/ SendEmailTask

SpecDispatchLog == DispatchLogInit /\ [][DispatchLogNext]_vars

\* C30: a dispatch log is created pending and before its task is enqueued;
\* once its task has run the log is sent if the mail service accepted the
\* message and failed otherwise, never pending; a log that is not pending
\* never becomes pending.
C30_LogSettledByTask ==
    /\ [](dl.status = "open" =>
            \A id \in LogIds :
                /\ dl.logs[id].task # "none" => dl.logs[id].status # "none"
                /\ dl.logs[id].task = "ran" =>
                      dl.logs[id].status =
                          IF dl.logs[id].outcome \in Accepted THEN "sent" ELSE "failed")
    /\ [][dl.status = "open" =>
            \A id \in LogIds :
                /\ (dl.logs[id].status = "none" /\ dl'.logs[id].status # "none") =>
                      (dl'.logs[id].status = "pending" /\ dl'.logs[id].task = "none")
                /\ dl.logs[id].status \in {"sent", "failed"} =>
                      dl'.logs[id].status \in {"sent", "failed"}]_vars

(***************************************************************************)
(* A text turn from the call of the conversation model to the end of the   *)
(* handler (triage/conversation_engine.py process_message and _call_llm,   *)
(* intake/webhook_service.py handle_text), turns one after the other       *)
(***************************************************************************)
\* the gathered_info of the replies of a turn
TurnInfos ==
    {EmptyInfo, InfoName, InfoLowRisk, InfoComplete,
     [InfoComplete EXCEPT !.contact_preference = "Email"],
     [InfoComplete EXCEPT !.contact_preference = "Email",
                          !.reporter_email = "amina@example.org"],
     [InfoComplete EXCEPT !.reporter_name = " "],
     [InfoComplete EXCEPT !.incident_description = NoneVal],
     [InfoComplete EXCEPT !.contact_preference = NoneVal],
     [InfoComplete EXCEPT !.location = "Unknown"]}

\* the "response" of a reply: the key absent, an empty string, blanks, a text
TurnTexts == {NoneVal, "", " ", "I see the threat."}

\* how the call of the model within process_message ends: the history of
\* the session cannot be built, no API key, requests.post or
\* raise_for_status raises, or a completion is returned whose content is a
\* JSON object, JSON that is not an object, or not JSON
ModelOutcomes ==
    {[kind |-> "history_error"], [kind |-> "no_key"], [kind |-> "request_error"],
     [kind |-> "non_object"]}
        \cup {[kind |-> "content", content |-> c] :
                c \in [json : {TRUE}, state : {"GATHERING", "CONFIRMING", "PROCESSING",
                                               "LOW_RISK_ADVISE"},
                       response : TurnTexts, gathered_info : TurnInfos]
                      \cup [json : {FALSE}, text : {"", " ", "Sorry, I cannot help"}]}

\* _call_llm: the fallback without a key, the parsed content, the fallback
\* on any exception (data.get on JSON that is not an object included)
call_llm(outcome) ==
    CASE outcome.kind = "no_key" -> get_fallback_response
      [] outcome.kind = "request_error" -> get_fallback_response
      [] outcome.kind = "non_object" -> get_fallback_response
      [] OTHER -> parse_llm_response(outcome.content)

\* process_message: any exception outside _call_llm gives the error response
process_message(outcome) ==
    IF outcome.kind = "history_error" THEN engine_error_response ELSE call_llm(outcome)

\* handle_text: the response is merged into the session and the session saved
MergeResponse(s, r) ==
    [s EXCEPT !.conversation_state = r.state,
              !.gathered_evidence =
                  IF r.gathered_info # EmptyInfo
                  THEN MergeEvidence(@, r.gathered_info) ELSE @]

\* TelegramProcessor.handle_text, once on the session
HandleText ==
    /\ turn.status = "open"
    /\ turn.outcome = "none"
    /\ \E outcome \in ModelOutcomes, analysis \in ReportOutcomes,
          dispatch \in DispatchOutcomes :
          LET r == process_message(outcome)
              merged == MergeResponse(turn.session, r)
              before == [turn EXCEPT !.outcome = outcome.kind, !.response = r,
                                     !.before = turn.session, !.created = FALSE]
              after == TextTurn(before, r, analysis, dispatch)
          IN  turn' = IF is_cancelled(merged)
                      THEN [before EXCEPT !.session = merged]
                      ELSE [after EXCEPT !.created = Len(after.cases) > Len(turn.cases)]
    /\ UNCHANGED <<engineVars, parseVars, sessionVars>>
    /\ LibFrame("turn")

\* the session a turn starts on: new, in its cooldown, gathering, confirming
\* a complete report, or asked for a location by the model
TurnSessions ==
    {InitialSession,
     [InitialSession EXCEPT !.cancelled_until = CooldownSeconds],
     [InitialSession EXCEPT !.conversation_state = "GATHERING",
                            !.gathered_evidence = InfoName],
     [InitialSession EXCEPT !.conversation_state = "CONFIRMING",
                            !.gathered_evidence =
                                [InfoComplete EXCEPT !.user_confirmed = NoneVal]],
     [InitialSession EXCEPT !.conversation_state = "ASKING_LOCATION",
                            !.gathered_evidence = InfoIncident]}

TurnInit ==
    /\ de_call = NoCall
    /\ de_result = NoResult
    /\ llm_reply = NoReply
    /\ parsed = NotParsed
    /\ SessionInit
    /\ LibIdle("turn")
    /\ \E s \in TurnSessions :
          turn = [status |-> "open", session |-> s,
                  before |-> InitialSession, outcome |-> "none",
                  response |-> NoResponse, cases |-> <<>>, dispatched |-> {},
                  created |-> FALSE]

TurnNext == HandleText

SpecTurn == TurnInit /\ [][TurnNext]_vars

\* a message the user would see as nothing
Blank(message) == message = NoneVal \/ Strip(message) = ""

\* C31: the ConversationResponse of every call of process_message carries a
\* message that is not blank, however the call of the model ended.
C31_ResponseNeverBlank ==
    (turn.status = "open" /\ turn.outcome # "none") => ~Blank(turn.response.message)

(***************************************************************************)
(* The safe-word check of an inbound text (utils/safety.py) in the text    *)
(* handlers of Telegram and of the Meta platforms                          *)
(* (intake/webhook_service.py)                                             *)
(***************************************************************************)
SAFE_WORDS == <<"IMARA STOP", "STOP", "CANCEL", "HELP ME", "EXIT", "EMERGENCY">>

CheckSafeWordAsTyped(text) ==
    /\ text # ""
    /\ \E i \in 1..Len(SAFE_WORDS) : Contains(SAFE_WORDS[i], StrStrip(text))

check_safe_word(text) ==
    /\ text # ""
    /\ \E i \in 1..Len(SAFE_WORDS) : Contains(SAFE_WORDS[i], StrStrip(StrUpper(text)))

\* text.startswith('/')
IsCommand(text) == text # "" /\ CharAt(text, 1) = "/"

\* the texts of the inbound messages
InboundTexts ==
    {"", "STOP", "stop", "Stop", "please stop him", "nonstop", "imara stop", "Cancel",
     "  HELP ME  ", "help me", "exit", "Emergency!", "/stop", "/start", "hello",
     "Lagos, Nigeria", "help"}

\* the session an inbound text finds: new, gathering, or awaiting the
\* location of its pending case 1
InboundSessions ==
    {InitialSession,
     [InitialSession EXCEPT !.conversation_state = "GATHERING",
                            !.gathered_evidence = InfoName],
     [InitialSession EXCEPT !.conversation_state = "ASKING_LOCATION",
                            !.awaiting_location = TRUE, !.pending_report_data = 1]}

\* what the handler did with the text, before it does anything
Untouched(u) ==
    [u EXCEPT !.handled = FALSE, !.user_message = NoneVal, !.command = FALSE,
              !.location_reply = FALSE, !.engine = FALSE, !.safety_message = FALSE]

\* the safe-word branch: set_cancelled(seconds=60), then the safety message
CancelSession(u) ==
    [u EXCEPT !.session = set_cancelled(@, CooldownSeconds), !.safety_message = TRUE]

\* the text turn of handle_text / _handle_text_message on the session
EngineTurn(u, r, outcome, dispatch) ==
    LET called == [u EXCEPT !.engine = TRUE]
    IN  IF is_cancelled(MergeResponse(u.session, r))
        THEN [called EXCEPT !.session = MergeResponse(u.session, r)]
        ELSE TextTurn(called, r, outcome, dispatch)

\* TelegramProcessor.process_update on a message with a text (or with none
\* of text, photo, voice, document when the text is empty)
TelegramProcessUpdate ==
    /\ upd.status = "open"
    /\ upd.platform = "telegram"
    /\ ~upd.handled
    /\ \E r \in TurnResponses, outcome \in ReportOutcomes, dispatch \in DispatchOutcomes,
          location_dispatch \in DispatchOutcomes :
          LET u == [upd EXCEPT !.handled = TRUE]
              text == upd.text
              pending == upd.session.pending_report_data
              located == [u EXCEPT !.location_reply = TRUE,
                                   !.session.last_detected_location = text,
                                   !.session.awaiting_location = FALSE,
                                   !.session.pending_report_data = NoCase,
                                   !.session.conversation_state = "IDLE"]
          IN  upd' =
                CASE text = "" -> u
                  [] check_safe_word(text) -> CancelSession(u)
                  [] IsCommand(text) -> [u EXCEPT !.command = TRUE]
                  [] upd.session.awaiting_location ->
                        IF pending # NoCase
                        THEN update_location_and_dispatch(located, pending, location_dispatch)
                        ELSE located
                  [] OTHER ->
                        EngineTurn([u EXCEPT !.user_message = text], r, outcome, dispatch)
    /\ UNCHANGED <<engineVars, parseVars, sessionVars>>
    /\ LibFrame("upd")

\* MetaProcessor._handle_text_message
MetaTextMessage ==
    /\ upd.status = "open"
    /\ upd.platform # "telegram"
    /\ ~upd.handled
    /\ \E r \in TurnResponses, outcome \in ReportOutcomes, dispatch \in DispatchOutcomes :
          LET u == [upd EXCEPT !.handled = TRUE]
              text == upd.text
              located == IF upd.session.awaiting_location
                         THEN [u EXCEPT !.location_reply = TRUE,
                                        !.session.last_detected_location = text,
                                        !.session.awaiting_location = FALSE]
                         ELSE u
          IN  upd' =
                IF check_safe_word(text) THEN CancelSession(u)
                ELSE EngineTurn([located EXCEPT !.user_message = text], r, outcome, dispatch)
    /\ UNCHANGED <<engineVars, parseVars, sessionVars>>
    /\ LibFrame("upd")

UpdateInit ==
    /\ de_call = NoCall
    /\ de_result = NoResult
    /\ llm_reply = NoReply
    /\ parsed = NotParsed
    /\ SessionInit
    /\ LibIdle("upd")
    /\ \E platform \in Platforms, text \in InboundTexts, s \in InboundSessions :
          /\ platform # "telegram" => text # ""
          /\ upd = Untouched(
                 [status |-> "open", platform |-> platform, text |-> text,
                  session |-> s, before |-> s,
                  cases |-> IF s.pending_report_data = NoCase THEN <<>>
                            ELSE <<[action |-> "ask_location"]>>,
                  dispatched |-> {},
                  handled |-> FALSE, user_message |-> NoneVal, command |-> FALSE,
                  location_reply |-> FALSE, engine |-> FALSE, safety_message |-> FALSE])

UpdateNext ==
    \/ TelegramProcessUpdate
    \/ MetaTextMessage

SpecUpdate == UpdateInit /\ [][UpdateNext]_vars

\* the text holds a safe word at some position, letter case apart
HoldsSafeWord(text) ==
    \E i \in 1..Len(SAFE_WORDS), at \in 1..Len(text) :
        /\ at + Len(SAFE_WORDS[i]) - 1 <= Len(text)
        /\ \A k \in 1..Len(SAFE_WORDS[i]) :
              LowerChar(CharAt(text, at + k - 1)) = LowerChar(CharAt(SAFE_WORDS[i], k))

MaxRequests == 3
MaxWindow == 1

\* rate="2/m", as in RateLimitTest.test_rate_limit_blocking
num_requests == 2

ClientIps == {"192.168.1.1", "5.6.7.8"}
RequestIds == 1..MaxRequests
Windows == 0..MaxWindow

\* f"{key_prefix}:{ip}:{int(time.time() / seconds)}"
rl_cache_key(ip, window) == <<ip, window>>
RlKeys == {rl_cache_key(ip, window) : ip \in ClientIps, window \in Windows}

NoRequest == [pc |-> "new", key |-> rl_cache_key("192.168.1.1", 0), request_count |-> 0]

\* _wrapped_view up to the test of the count: with DEBUG the view is called
\* at once; otherwise the key is made and the count read from the cache,
\* and a count at the limit is answered 429
ReadCount ==
    /\ rl.status = "open"
    /\ \E q \in RequestIds, ip \in ClientIps :
          LET key == rl_cache_key(ip, rl.window)
              request_count == rl.cache[key]
          IN  /\ rl.requests[q].pc = "new"
              /\ rl' =
                   IF rl.debug
                   THEN [rl EXCEPT !.requests[q] = [pc |-> "served", key |-> key,
                                                    request_count |-> 0],
                                   !.served[key] = @ + 1]
                   ELSE IF request_count >= num_requests
                   THEN [rl EXCEPT !.requests[q] = [pc |-> "rejected", key |-> key,
                                                    request_count |-> request_count]]
                   ELSE [rl EXCEPT !.requests[q] = [pc |-> "counted", key |-> key,
                                                    request_count |-> request_count]]
    /\ UNCHANGED <<engineVars, parseVars, sessionVars>>
    /\ LibFrame("rl")

\* _wrapped_view from cache.set on: the count read is written back plus
\* one, then the view is called
SetCountAndServe ==
    /\ rl.status = "open"
    /\ \E q \in RequestIds :
          LET key == rl.requests[q].key
          IN  /\ rl.requests[q].pc = "counted"
              /\ rl' = [rl EXCEPT !.cache[key] = rl.requests[q].request_count + 1,
                                  !.served[key] = @ + 1,
                                  !.requests[q].pc = "served"]
    /\ UNCHANGED <<engineVars, parseVars, sessionVars>>
    /\ LibFrame("rl")

\* time.time() passes into the next window
NextWindow ==
    /\ rl.status = "open"
    /\ rl.window < MaxWindow
    /\ rl' = [rl EXCEPT !.window = @ + 1]
    /\ UNCHANGED <<engineVars, parseVars, sessionVars>>
    /\ LibFrame("rl")

RateLimitInit ==
    /\ de_call = NoCall
    /\ de_result = NoResult
    /\ llm_reply = NoReply
    /\ parsed = NotParsed
    /\ SessionInit
    /\ LibIdle("rl")
    /\ \E debug \in BOOLEAN :
          rl = [status |-> "open", debug |-> debug, window |-> 0,
                cache |-> [k \in RlKeys |-> 0], served |-> [k \in RlKeys |-> 0],
                requests |-> [q \in RequestIds |-> NoRequest]]

RateLimitNext ==
    \/ ReadCount
    \/ SetCountAndServe
    \/ NextWindow

SpecRateLimit == RateLimitInit /\ [][RateLimitNext]_vars

\* C33: with the limiter on, at most num_requests requests of one client
\* reach the view in one window, and a request of a client whose requests
\* have reached the view num_requests times in the window is answered 429.
C33_AtMostNPerWindow ==
    (rl.status = "open" /\ ~rl.debug) =>
        \A k \in RlKeys : rl.served[k] <= num_requests

\* a mandatory field is missing from the gathered information of a turn:
\* name, description or contact preference, or the email when the contact
\* preference mentions email
LacksMandatory(info) ==
    \/ FieldValue(info, "reporter_name") = ""
    \/ FieldValue(info, "incident_description") = ""
    \/ FieldValue(info, "contact_preference") = ""
    \/ /\ ContainsEmail(Lower(FieldValue(info, "contact_preference")))
       /\ FieldValue(info, "reporter_email") = ""

\* C34: a text turn whose gathered information lacks a mandatory field
\* creates no case, and when the turn proposed a report the session is
\* back in GATHERING at its end.
C34_NoCaseWithoutMandatoryFields ==
    (turn.status = "open" /\ turn.outcome # "none"
        /\ LacksMandatory(turn.response.gathered_info)) =>
        /\ ~turn.created
        /\ (turn.response.should_create_report /\ ~is_cancelled(turn.session)) =>
              turn.session.conversation_state = "GATHERING"

\* the same with the three fields _create_and_send_report tests, the email
\* left out
LacksTestedField(info) ==
    \/ FieldValue(info, "reporter_name") = ""
    \/ FieldValue(info, "incident_description") = ""
    \/ FieldValue(info, "contact_preference") = ""

TestedFieldsGate ==
    (turn.status = "open" /\ turn.outcome # "none"
        /\ LacksTestedField(turn.response.gathered_info)) =>
        /\ ~turn.created
        /\ (turn.response.should_create_report /\ ~is_cancelled(turn.session)) =>
              turn.session.conversation_state = "GATHERING"

\* ChatSession.State
SessionStates == {"IDLE", "GATHERING", "ASKING_LOCATION", "CONFIRMING", "PROCESSING"}

\* C35: once the handler of a text turn has returned, the stored
\* conversation_state is a declared session state; a turn whose response
\* state is LOW_RISK_ADVISE has created no report and left the session in
\* IDLE with empty gathered_evidence.
C35_LowRiskTurnEndsIdle ==
    (turn.status = "open" /\ turn.outcome # "none") =>
        /\ turn.session.conversation_state \in SessionStates
        /\ turn.response.state = "LOW_RISK_ADVISE" =>
              /\ ~turn.created
              /\ turn.session.conversation_state = "IDLE"
              /\ turn.session.gathered_evidence = EmptyInfo

\* C36: a text turn during which the conversation model is unavailable or
\* its call fails leaves the session with the conversation state and the
\* gathered_evidence it had before the turn, and proposes no report.
C36_FailureKeepsSession ==
    (turn.status = "open" /\ turn.outcome \in {"no_key", "request_error"}) =>
        /\ turn.session.conversation_state = turn.before.conversation_state
        /\ turn.session.gathered_evidence = turn.before.gathered_evidence
        /\ ~turn.response.should_create_report

\* C37: a report result whose action is "report", on which send_result
\* tells the user that the case was escalated to a support partner, comes
\* with a partner dispatch enqueued for its case.
C37_EscalatedMeansDispatched ==
    \A w \in Workers :
        (pc[w] = "send_result" /\ result[w].action = "report") =>
            /\ result[w].dispatched
            /\ \E d \in dispatches : d.case_id = result[w].case_id

\* the supported countries the text names in full, letter case apart
NamedCountries(text) ==
    {c \in SeqRange(AFRICAN_COUNTRIES) : Contains(StrLower(c), StrLower(text))}

\* no segment after a comma and no known city decides the text
DecidedByCountryName(text) ==
    LET raw == ReplaceDoubleSpace(StrLower(StrStrip(text)))
    IN  /\ ~(Contains(",", raw)
               /\ CountryEqual(SynonymGet(StrStrip(LastSegment(raw)))) # NoneVal)
        /\ CityIn(raw) = NoneVal

\* C38: when the text names a supported country in full and neither a comma
\* segment nor a known city decides, the result is a country the text names
\* and not one whose name is only a part of the name of a country named.
C38_LongestCountryNameWins ==
    (Normalized /\ NamedCountries(loc.text) # {} /\ DecidedByCountryName(loc.text)) =>
        /\ loc.country \in NamedCountries(loc.text)
        /\ \A c \in NamedCountries(loc.text) :
              c # loc.country => ~Contains(StrLower(loc.country), StrLower(c))

\* C39: every result of normalize_location is a canonical country name or
\* "Unknown", and normalising the result again returns it unchanged.
C39_NormalizeIdempotent ==
    /\ Normalized => loc.country \in SeqRange(AFRICAN_COUNTRIES) \cup {"Unknown"}
    /\ loc.again # "<unset>" => loc.again = loc.country

C39_Witness ==
    /\ loc.text = "I live in south africa"
    /\ loc.country = "South Africa"
    /\ loc.again = "South Africa"

====
